---- MODULE Spec2Model ----
(***************************************************************************)
(* Model of the power-mode controller of the HAL (source/power_modes.c)    *)
(* together with the collaborators it calls (include/clock.h,              *)
(* include/power.h, include/crc.h, include/watchdog.h, source/trim.c).     *)
(*                                                                         *)
(* A function body is a sequence of statements; the processor executes the *)
(* statement at the head of `todo`, one action per kind of statement.      *)
(* Conditionals on the configuration struct are resolved when a function   *)
(* is entered (the struct is read-only input); conditionals on registers   *)
(* and on static variables are statements of their own, evaluated when the *)
(* processor reaches them.  `log` records the statements executed by the   *)
(* current top-level call.                                                 *)
(***************************************************************************)
EXTENDS Integers, Sequences, FiniteSets, TLC

(***************************************************************************)
(* Bounds of the model.                                                    *)
(***************************************************************************)
\* Voltage trims range over 0..MaxTrim.
MaxTrim == 2
\* Number of 32-bit words modelled per RF register bank / baseband block.
BankWords == 1
\* Number of Enter calls the application makes in one behaviour.
MaxCalls == 1

(***************************************************************************)
(* Program constants.                                                      *)
(***************************************************************************)
\* Trim code of VDDC for 1.10 V (power_modes.c:176) and of VCC (line 181).
\* The numeric codes come from the device header; only the order matters.
VDDC_TRIM_1P10V_BYTE == 1
VCC_TRIM_1P10V == 1
\* Words of the wake configuration block (power_modes.c:233-240).
WAKEUP_BLOCK_WORDS == 8
\* Words covered by the CRC (power_modes.c:862).
CRC_WORDS == 7
\* Word width of the CRC engine input (power_modes.c:864).
WORD_BITS == 32

\* A 32-bit word is the pair <<high half, low half>> of 16-bit halves.
HALF == 65536
\* CRC_32_INIT_VALUE (crc.h:73) is 0xFFFFFFFF: both halves all ones.
CRC_32_INIT_HALF == 65535
\* Generator polynomial 0x04C11DB7 of the CRC-32 engine, by halves.
CRC_32_POLY_HI == 1217
CRC_32_POLY_LO == 7607

Sleep_Retention_t == {"SLEEP_NO_RETENTION", "SLEEP_MEM_RETENTION", "SLEEP_CORE_RETENTION"}
BootCfgs == {"BOOT_FLASH_XTAL_DISABLE", "BOOT_CUSTOM",
             "BOOT_FLASH_XTAL_DEFAULT_TRIM", "BOOT_FLASH_XTAL_CUSTOM_TRIM"}
RF_ACCESS_BITS == {"RF_ACCESS_ENABLE", "RF_IRQ_ACCESS_ENABLE", "BB_ACCESS_ENABLE"}
RF_POWER_BITS == {"RF_POWER_ENABLE", "BB_POWER_ENABLE"}
BLE_IRQS == {"BLE_HSLOT_IRQn", "BLE_SLP_IRQn", "BLE_FIFO_IRQn", "BLE_CRYPT_IRQn",
             "BLE_ERROR_IRQn", "BLE_TIMESTAMP_TGT1_IRQn", "BLE_FINETGT_IRQn",
             "BLE_TIMESTAMP_TGT2_IRQn", "BLE_SW_IRQn"}
TrimValues == 0..MaxTrim

VARIABLES
    cfg,        \* the mode configuration struct built by the application
    op,         \* top-level function the processor is in ("idle" when in the application)
    retention,  \* retention_type argument of Sys_PowerModes_Sleep_Enter
    todo,       \* statements still to execute in the current call
    log,        \* statements executed so far by the current call
    reg,        \* memory-mapped registers and processor state
    ram,        \* static variables and linker-reserved RAM
    nvr,        \* calibration records in non-volatile memory
    obs         \* observations of the run (history, never read by the program)

vars == <<cfg, op, retention, todo, log, reg, ram, nvr, obs>>

(***************************************************************************)
(* 32-bit arithmetic for the CRC engine.                                   *)
(***************************************************************************)
Zero32 == <<0, 0>>

RECURSIVE Xor(_, _, _)
Xor(a, b, n) ==
    IF n = 0 THEN 0
    ELSE IF n = 1 THEN ((a % 2) + (b % 2)) % 2
    ELSE LET h == n \div 2
             m == 2 ^ h
         IN  Xor(a % m, b % m, h) + (m * Xor(a \div m, b \div m, n - h))

Xor32(x, y) ==
    CHOOSE r \in { <<Xor(a[1], b[1], 16), Xor(a[2], b[2], 16)>> :
                      a \in {x}, b \in {y} } : TRUE

RECURSIVE Reverse(_, _, _)
Reverse(a, n, acc) ==
    IF n = 0 THEN acc
    ELSE IF n = 1 THEN (2 * acc) + (a % 2)
    ELSE LET h == n \div 2
         IN  CHOOSE r \in { Reverse(a \div (2 ^ h), n - h, v) :
                                v \in {Reverse(a, h, acc)} } : TRUE

Reverse32(x) == <<Reverse(x[2], 16, 0), Reverse(x[1], 16, 0)>>

\* Bit i (31 = most significant) of a word.
Bit32(x, i) == IF i >= 16 THEN (x[1] \div (2 ^ (i - 16))) % 2 ELSE (x[2] \div (2 ^ i)) % 2

Shl32(x) == <<((x[1] * 2) + (x[2] \div (HALF \div 2))) % HALF, (x[2] * 2) % HALF>>

\* One bit through the CRC-32 shift register, most significant bit first.
CrcBit(value, bit) ==
    IF (Bit32(value, WORD_BITS - 1) + bit) % 2 = 1
    THEN Xor32(Shl32(value), <<CRC_32_POLY_HI, CRC_32_POLY_LO>>)
    ELSE Shl32(value)

\* Bits hi down to lo of data through the shift register, one after the other.
RECURSIVE CrcBits(_, _, _, _)
CrcBits(value, data, hi, lo) ==
    IF hi = lo THEN CrcBit(value, Bit32(data, hi))
    ELSE LET mid == (hi + lo + 1) \div 2
         IN  CHOOSE r \in { CrcBits(v, data, mid - 1, lo) :
                                v \in {CrcBits(value, data, hi, mid)} } : TRUE

CrcWord(value, data, n) ==
    IF n = 0 THEN value ELSE CrcBits(value, data, n - 1, 0)

\* CRC->ADD_32 = data: the engine folds the word into CRC->VALUE.
Sys_CRC_Add(value, data) == CrcWord(value, data, WORD_BITS)

\* CRC->FINAL: the standard final reversal and inversion of CRC->VALUE.
Sys_CRC_GetFinalValue(value) ==
    CHOOSE r \in { Xor32(Reverse32(v), <<CRC_32_INIT_HALF, CRC_32_INIT_HALF>>) :
                      v \in {value} } : TRUE

(***************************************************************************)
(* Statements.  A statement is <<kind, argument>>.                         *)
(***************************************************************************)
S(k) == <<k, "">>
SA(k, a) == <<k, a>>

At(k) == todo # <<>> /\ Head(todo)[1] = k
Arg == Head(todo)[2]
\* Complete the current statement.
Step == todo' = Tail(todo) /\ log' = Append(log, Head(todo))
\* Complete the current statement, which enters the block `body`.
StepInto(body) == todo' = body \o Tail(todo) /\ log' = Append(log, Head(todo))

Kinds(l) == [i \in DOMAIN l |-> l[i][1]]
Executed(k) == \E i \in DOMAIN log : log[i][1] = k
\* Position of the first execution of a statement of kind k (0: none).
First(k) == IF Executed(k) THEN CHOOSE i \in DOMAIN log :
                 log[i][1] = k /\ \A j \in 1..(i - 1) : log[j][1] # k
            ELSE 0
\* Position of the last execution of a statement of kind k (0: none).
Last(k) == IF Executed(k) THEN CHOOSE i \in DOMAIN log :
                 log[i][1] = k /\ \A j \in (i + 1)..Len(log) : log[j][1] # k
           ELSE 0

(***************************************************************************)
(* Configuration struct, non-volatile records, linker symbols.             *)
(***************************************************************************)
SysFreqs == {48000000}

\* sleep_mode_cfg / standby_mode_cfg / deepsleep_mode_cfg (power_modes.h).
\* The three structs share their first fields; one record stands for all.
CfgSet ==
    [ boot_cfg        : BootCfgs,
      systemclk_freq  : SysFreqs,
      app_gpio_config : BOOLEAN,      \* callback supplied?
      ble_present     : BOOLEAN,
      vddt_ret        : BOOLEAN,
      app_addr        : BOOLEAN ]     \* application return address set?

\* Addresses exported by the linker script.  The wake configuration is
\* written through app_ptr; __Wakeup_addr is "the location where wakeup
\* configuration is written".
app_ptr == "DRAM_WAKEUP_RSVD"
Wakeup_addr == app_ptr
stack == <<8193, 0>>
WakeupFromRAM_addr == <<16, 1025>>
VTORs == {<<16, 0>>}

\* Contents of RAM the program has not written yet.
Garbage == {[i \in 1..WAKEUP_BLOCK_WORDS |-> <<43690, 21845 + i>>]}

\* Trim targets of the RC oscillator (trim.h:196-199) in kHz.
RcTargets == {3000, 12000, 24000, 48000}
TARGET_RC12 == 12000
TARGET_DCDC_1120 == 112

\* Content of the calibration region: the targets that have a valid record.
NvrSet == { [rcosc |-> {}, dcdc |-> {}],
            [rcosc |-> RcTargets, dcdc |-> {TARGET_DCDC_1120}] }

\* The DCDC record for 1.12 V: low byte for LDO mode, high byte for buck mode.
DcdcTrim1120 == [ldo |-> VCC_TRIM_1P10V + 1, buck |-> VCC_TRIM_1P10V + 2]

(***************************************************************************)
(* Initial state: the application runs after boot, has built its           *)
(* configuration struct and has not called the power-mode controller yet.  *)
(***************************************************************************)
InitReg(rfOn, vddc, vcc, vtor) ==
    [ PRIMASK        |-> FALSE,
      NVIC_EN        |-> {"APP_IRQn"},
      NVIC_PEND      |-> {},
      SYS_CLKSRC     |-> IF rfOn THEN "RFCLK" ELSE "RCCLK",
      RC_FSEL        |-> "3MHZ",
      RC_ENABLE      |-> TRUE,
      RC_FTRIM       |-> 0,
      FLASH_DELAY    |-> IF rfOn THEN "48MHZ" ELSE "3MHZ",
      XTAL_DISABLE   |-> ~rfOn,
      XTAL_PRESCALE  |-> 1,
      CLK_DIG_READY  |-> rfOn,
      RF_ACCESS_CFG  |-> IF rfOn THEN RF_ACCESS_BITS ELSE {},
      RF_POWER_CFG   |-> IF rfOn THEN RF_POWER_BITS ELSE {},
      VDDPA_CTRL     |-> IF rfOn THEN "VDDPA_SW_VDDRF" ELSE "VDDPA_SW_HIZ",
      VDDRF_ENABLE   |-> rfOn,
      VDDRF_READY    |-> rfOn,
      PADS_RETENTION |-> FALSE,
      VDDC_VTRIM     |-> vddc,
      VDDC_STANDBY   |-> 0,
      VDDM_STANDBY   |-> 0,
      VCC_CTRL       |-> vcc,
      VDDRET_CTRL    |-> [VDDMRET |-> FALSE, VDDCRET |-> FALSE, VDDTRET |-> FALSE],
      BOOT_GP_DATA   |-> "none",
      GP_DATA        |-> "none",
      PWR_MODES_CTRL |-> "PWR_RUN_MODE",
      WAKEUP_ADDR    |-> "none",
      WAKEUP_CFG     |-> "none",
      BOOT_CFG       |-> "none",
      WAKEUP_CTRL    |-> {},
      CLK_DET        |-> [ENABLE |-> FALSE, CLOCK_PRESENT |-> FALSE, RESET_IGNORE |-> TRUE],
      RESET_FLAGS    |-> TRUE,
      DIV_CFG        |-> [core |-> 0, slowclk |-> 0, bbclk |-> 0, dcclk |-> 0],
      VTOR           |-> vtor,
      SystemCoreClock |-> IF rfOn THEN 48000000 ELSE 3000000,
      CRC_CFG        |-> "none",
      CRC_VALUE      |-> Zero32,
      RF_BANK        |-> "0",
      RF             |-> [b \in {"0", "1"} |-> [i \in 1..BankWords |-> IF b = "0" THEN 1 ELSE 2]],
      BB             |-> [i \in 1..BankWords |-> 3],
      BB_DEEPSLCNTL  |-> {},
      BBIF_CTRL      |-> {"BB_CLK_ENABLE"},
      BBIF_STATUS    |-> [CLK |-> "MASTER_CLK", OSC_ENABLED |-> TRUE],
      DMA            |-> [transfer |-> "none", enabled |-> FALSE, complete |-> FALSE],
      \* trim registers of the ACS block that only the trim library writes
      ACS            |-> [BG_CTRL |-> Zero32, VDDM_VTRIM |-> 0, VDDRF_VTRIM |-> 0,
                          VDDPA_VTRIM |-> 0, VDDIF_VTRIM |-> 0, VDDFLASH_VTRIM |-> 0,
                          RCOSC_CTRL |-> 0, ICH_TRIM |-> 0],
      \* crystal trim fields of RF->REG2E
      REG2E          |-> [XTAL_TRIM_INIT |-> 0, XTAL_TRIM |-> 0] ]

InitRam(g) ==
    [ restore_trim        |-> 0,
      vddc_trim_backup    |-> 0,
      ACS_VCC_CTRL_backup |-> [VTRIM |-> 0, BUCK |-> FALSE],
      mem                 |-> [a \in {app_ptr} |-> g],
      rf_registers_image_1 |-> [i \in 1..BankWords |-> 0],
      rf_registers_image_2 |-> [i \in 1..BankWords |-> 0],
      bb_registers_image   |-> [i \in 1..BankWords |-> 0],
      bb_image_DEEPSLCNTL  |-> {} ]

InitObs ==
    [ pre         |-> [pads |-> FALSE, rf_access |-> {}, vddc |-> 0,
                       vcc |-> [VTRIM |-> 0, BUCK |-> FALSE],
                       rf |-> << >>, bb |-> << >>, deepslcntl |-> {}],
      wfi         |-> "none",    \* how the last wait primitive ended
      vddc_writes |-> 0,         \* writes of the VDDC trim by the current call
      calls       |-> 0,         \* Enter calls made so far
      isr_masked  |-> FALSE,     \* an ISR ran inside the masked section
      app_called  |-> FALSE,     \* the application return address was called
      spin        |-> FALSE,     \* parity of the iterations of the halt loop
      res         |-> [fn |-> "none"],  \* last call of the trim library:
                                        \* arguments and results
      wdg_fed     |-> FALSE ]    \* the watchdog was refreshed since the processor
                                 \* started the operation or last went round the
                                 \* halt loop

VccValues == [VTRIM : TrimValues, BUCK : BOOLEAN]

\* Initial states with the configuration, the RF state, the trims of VDDC and
\* VCC, the RAM contents and the calibration region drawn from the given sets.
InitFrom(cfgs, rfOns, vddcs, vccs, mems, nvrs) ==
    /\ cfg \in cfgs
    /\ op = "idle"
    /\ retention = "none"
    /\ todo = << >>
    /\ log = << >>
    /\ \E rfOn \in rfOns, vddc \in vddcs, vcc \in vccs, vtor \in VTORs :
          reg = InitReg(rfOn, vddc, vcc, vtor)
    /\ \E g \in mems : ram = InitRam(g)
    /\ nvr \in nvrs
    /\ obs = InitObs

LowVcc == [VTRIM |-> 0, BUCK |-> FALSE]

Init == InitFrom(CfgSet, BOOLEAN, {0}, {LowVcc}, Garbage, NvrSet)

(***************************************************************************)
(* Function bodies of source/power_modes.c and include/clock.h.            *)
(***************************************************************************)
XtalBoot(c) == c.boot_cfg \in {"BOOT_CUSTOM", "BOOT_FLASH_XTAL_DEFAULT_TRIM",
                               "BOOT_FLASH_XTAL_CUSTOM_TRIM"}

\* _Sys_PowerModes_Sleep_BLERegister_DMACopy(src, dest, size, dma_num)
DMACopy_Body(transfer) ==
    << SA("DMA_START", transfer), S("WAIT_DMA_COMPLETE"), S("DMA_STOP") >>

\* A snapshot that copies the baseband registers before it waits for the
\* low-power clock.
BLERegistersConfig_Enter_CopyBeforeWait ==
    << SA("RF_BANK_SELECT", "1") >> \o DMACopy_Body("RF_TO_IMAGE_2")
    \o << SA("RF_BANK_SELECT", "0") >> \o DMACopy_Body("RF_TO_IMAGE_1")
    \o DMACopy_Body("BB_TO_IMAGE")
    \o << S("WATCHDOG_REFRESH"), S("WAIT_BB_LOW_POWER_CLK") >>
    \o << S("BB_IMAGE_DEEPSLCNTL"), S("WATCHDOG_REFRESH"), S("WAIT_BB_OSC_DISABLED") >>

\* _Sys_PowerModes_Sleep_BLERegistersConfig_Enter
BLERegistersConfig_Enter_Body ==
    << SA("RF_BANK_SELECT", "1") >> \o DMACopy_Body("RF_TO_IMAGE_2")
    \o << SA("RF_BANK_SELECT", "0") >> \o DMACopy_Body("RF_TO_IMAGE_1")
    \o << S("WATCHDOG_REFRESH"), S("WAIT_BB_LOW_POWER_CLK") >>
    \o DMACopy_Body("BB_TO_IMAGE")
    \o << S("BB_IMAGE_DEEPSLCNTL"), S("WATCHDOG_REFRESH"), S("WAIT_BB_OSC_DISABLED") >>

\* A restore that writes each RF image into the other bank.
BLERegistersConfig_Wakeup_Swapped ==
    << SA("RF_BANK_SELECT", "0") >> \o DMACopy_Body("IMAGE_2_TO_RF")
    \o << SA("RF_BANK_SELECT", "1") >> \o DMACopy_Body("IMAGE_1_TO_RF")
    \o DMACopy_Body("IMAGE_TO_BB")
\* _Sys_PowerModes_Sleep_BLERegistersConfig_Wakeup
BLERegistersConfig_Wakeup_Body ==
    << SA("RF_BANK_SELECT", "1") >> \o DMACopy_Body("IMAGE_2_TO_RF")
    \o << SA("RF_BANK_SELECT", "0") >> \o DMACopy_Body("IMAGE_1_TO_RF")
    \o DMACopy_Body("IMAGE_TO_BB")

\* The clock setup without the switch of the system clock.
Sleep_ClockSetup_NoSwitch ==
    << S("RCOSC_3MHZ_ENABLE") >>
\* _Sys_PowerModes_Sleep_ClockSetup
Sleep_ClockSetup_Body ==
    << S("RCOSC_3MHZ_ENABLE"), SA("SYSCLK_SELECT", "RCCLK") >>

\* Sys_Clocks_XTALClkConfig (clock.h) followed by the rest of
\* Sys_PowerModes_XTAL_ClockInit
XTAL_ClockInit_Body ==
    << S("VDDRF_ENABLE"), S("WAIT_VDDRF_READY"), S("VDDPA_CONNECT_VDDRF"),
       S("RF_ENABLE"), S("XTAL_START"), S("XTAL_PRESCALER_WRITE"),
       S("WAIT_CLK_DIG_READY"),
       SA("SYSCLK_SELECT", "RFCLK"), S("DIVIDER_CONFIG") >>

\* _Sys_PowerModes_Wakeup_ClockInit
Wakeup_ClockInit_Body(c) ==
    IF XtalBoot(c)
    THEN XTAL_ClockInit_Body
    ELSE << S("RCOSC_TRIM_AND_FSEL"), SA("SYSCLK_SELECT", "RCCLK"), S("DIVIDER_CONFIG") >>

\* The baseband timer wakeup pulse of the wake-init routines
BBTimerWakeup_Body ==
    << S("BBIF_CTRL_DEEP_SLEEP"), S("BB_WAKEUP_SET"), S("SYS_DELAY"),
       S("WATCHDOG_REFRESH"), S("WAIT_BB_MASTER_CLK"), S("BB_WAKEUP_CLEAR"),
       S("WAKEUP_BB_TIMER_CLEAR") >>

\* A wake-init that releases the pads before the GPIO callback has run.
Sleep_WakeupInit_PadsFirst(c) ==
    << S("WATCHDOG_REFRESH"), S("CLK_DET_ENABLE"), S("WAIT_CLOCK_PRESENT"),
       S("CLK_DET_CLEAR_RESET_IGNORE"), S("PADS_RETENTION_DISABLE") >>
    \o (IF c.app_gpio_config THEN << S("APP_GPIO_CONFIG") >> ELSE << >>)
    \o << S("CLEAR_RESET_FLAGS") >>
    \o Wakeup_ClockInit_Body(c)
    \o (IF c.ble_present THEN BLERegistersConfig_Wakeup_Body ELSE << >>)
    \o (IF c.ble_present THEN << S("IF_VDDTRET_ENABLE") >> ELSE << >>)
\* _Sys_PowerModes_Sleep_WakeupInit
Sleep_WakeupInit_Body(c) ==
    << S("WATCHDOG_REFRESH"), S("CLK_DET_ENABLE"), S("WAIT_CLOCK_PRESENT"),
       S("CLK_DET_CLEAR_RESET_IGNORE") >>
    \o (IF c.app_gpio_config THEN << S("APP_GPIO_CONFIG") >> ELSE << >>)
    \o << S("PADS_RETENTION_DISABLE"), S("CLEAR_RESET_FLAGS") >>
    \o Wakeup_ClockInit_Body(c)
    \o (IF c.ble_present THEN BLERegistersConfig_Wakeup_Body ELSE << >>)
    \o (IF c.ble_present THEN << S("IF_VDDTRET_ENABLE") >> ELSE << >>)

\* A standby wake-init that tests the VDDT retention regulator as the sleep
\* wake-init does.
Standby_WakeupInit_CheckVddt(c) ==
    << S("WATCHDOG_REFRESH"), S("CLK_DET_ENABLE"), S("WAIT_CLOCK_PRESENT"),
       S("CLK_DET_CLEAR_RESET_IGNORE") >>
    \o (IF c.app_gpio_config THEN << S("APP_GPIO_CONFIG") >> ELSE << >>)
    \o << S("PADS_RETENTION_DISABLE"), S("CLEAR_RESET_FLAGS") >>
    \o Wakeup_ClockInit_Body(c)
    \o (IF c.ble_present THEN BLERegistersConfig_Wakeup_Body ELSE << >>)
    \o (IF c.ble_present THEN << S("IF_VDDTRET_ENABLE") >> ELSE << >>)
\* _Sys_PowerModes_Standby_WakeupInit
Standby_WakeupInit_Body(c) ==
    << S("WATCHDOG_REFRESH"), S("CLK_DET_ENABLE"), S("WAIT_CLOCK_PRESENT"),
       S("CLK_DET_CLEAR_RESET_IGNORE") >>
    \o (IF c.app_gpio_config THEN << S("APP_GPIO_CONFIG") >> ELSE << >>)
    \o << S("PADS_RETENTION_DISABLE"), S("CLEAR_RESET_FLAGS") >>
    \o Wakeup_ClockInit_Body(c)
    \o (IF c.ble_present THEN BLERegistersConfig_Wakeup_Body ELSE << >>)
    \o (IF c.ble_present THEN BBTimerWakeup_Body ELSE << >>)

\* Sys_PowerModes_Wakeup_WithReset, up to the wake interrupt enable
Wakeup_WithReset_Init_Body(c) ==
    << S("WATCHDOG_REFRESH"), S("CLK_DET_ENABLE"), S("WAIT_CLOCK_PRESENT"),
       S("CLK_DET_CLEAR_RESET_IGNORE") >>
    \o (IF c.app_gpio_config THEN << S("APP_GPIO_CONFIG") >> ELSE << >>)
    \o << S("PADS_RETENTION_DISABLE"), S("CLEAR_RESET_FLAGS") >>
    \o Wakeup_ClockInit_Body(c)
    \o << S("WAKEUP_IRQ_SET_PENDING"), SA("NVIC_ENABLE", "WAKEUP_IRQn") >>

\* Sys_PowerModes_Wakeup_WithReset
Wakeup_WithReset_Body(c) ==
    Wakeup_WithReset_Init_Body(c) \o << S("ENABLE_IRQ"), S("ISB") >>

\* The VDDRET_CTRL write of the three retention routines, with the
\* retention regulators each of them enables.
\* _Sys_PowerModes_Sleep_CoreRetention
Sleep_CoreRetention_Body ==
    << S("IF_VDDC_BELOW_1P10V"), SA("VDDRET_CTRL_WRITE", "SLEEP_CORE_RETENTION"),
       S("BOOT_GP_DATA_WRITE"), SA("PWR_MODES_CTRL_WRITE", "PWR_SLEEP_MODE"),
       SA("WFI", "wfi_for_power_mode"), S("IF_RESTORE_TRIM") >>

\* _Sys_PowerModes_CalculateCRC
CalculateCRC_Body ==
    << S("CRC_CONFIG"), S("CRC_32_INIT"), S("CRC_ADD_WORDS") >>

\* _Sys_PowerModes_Sleep_MemoryRetention
Sleep_MemoryRetention_Body ==
    << SA("VDDRET_CTRL_WRITE", "SLEEP_MEM_RETENTION"), S("APP_PTR_WRITE_0_TO_6") >>
    \o CalculateCRC_Body
    \o << S("APP_PTR_WRITE_7_CRC"), S("WAKEUP_ADDR_WRITE"), S("BOOT_GP_DATA_WRITE"),
          S("GP_DATA_WRITE"), SA("PWR_MODES_CTRL_WRITE", "PWR_SLEEP_MODE"),
          SA("WFI", "WFI") >>

\* _Sys_PowerModes_Sleep_NoRetention
Sleep_NoRetention_Body ==
    << SA("VDDRET_CTRL_WRITE", "SLEEP_NO_RETENTION"),
       SA("PWR_MODES_CTRL_WRITE", "PWR_SLEEP_MODE"), SA("WFI", "WFI") >>

\* Sys_PowerModes_Sleep_Enter
Sleep_Enter_Body(c, retention_type) ==
    (IF c.ble_present THEN BLERegistersConfig_Enter_Body ELSE << >>)
    \o << S("ENABLE_IRQ"), S("ISB"), S("DISABLE_IRQ") >>
    \o Sleep_ClockSetup_Body
    \o << S("IF_RF_ACCESS_ENABLE"), S("RF_ACCESS_DISABLE"), S("RF_POWER_DISABLE"),
          S("VDDPA_DISABLE"), S("VDDRF_DISABLE"), S("PADS_RETENTION_ENABLE") >>
    \o (CASE retention_type = "SLEEP_NO_RETENTION" -> Sleep_NoRetention_Body
          [] retention_type = "SLEEP_MEM_RETENTION" -> Sleep_MemoryRetention_Body
          [] retention_type = "SLEEP_CORE_RETENTION" -> Sleep_CoreRetention_Body
          [] OTHER -> << >>)
    \o Sleep_WakeupInit_Body(c)
    \o << S("ENABLE_IRQ"), S("ISB"), S("RETURN") >>

\* Sys_PowerModes_Standby_Enter
Standby_Enter_Body(c) ==
    (IF c.ble_present THEN BLERegistersConfig_Enter_Body ELSE << >>)
    \o << S("ENABLE_IRQ"), S("ISB"), S("DISABLE_IRQ") >>
    \o Sleep_ClockSetup_Body
    \o << S("IF_RF_ACCESS_ENABLE"), S("RF_ACCESS_DISABLE"), S("RF_POWER_DISABLE"),
          S("VDDPA_DISABLE"), S("VDDRF_DISABLE"),
          S("STANDBY_VTRIM_WRITE"), S("PADS_RETENTION_ENABLE"),
          S("BOOT_GP_DATA_WRITE"), SA("PWR_MODES_CTRL_WRITE", "PWR_STANDBY_MODE"),
          SA("WFI", "wfi_for_power_mode") >>
    \o Standby_WakeupInit_Body(c)
    \o << S("ENABLE_IRQ"), S("ISB"), S("RETURN") >>

\* Sys_PowerModes_DeepSleep_Enter
DeepSleep_Enter_Body(c) ==
    << S("ENABLE_IRQ"), S("ISB"), S("DISABLE_IRQ") >>
    \o Sleep_ClockSetup_Body
    \o << S("PADS_RETENTION_ENABLE"), SA("PWR_MODES_CTRL_WRITE", "PWR_DEEP_SLEEP_MODE"),
          SA("WFI", "WFI") >>
    \o Wakeup_WithReset_Body(c)
    \o << S("ENABLE_IRQ"), S("ISB"), S("RETURN") >>

\* _Sys_PowerModes_WakeupFromRAM, up to the read of ACS->GP_DATA
WakeupFromRAM_Body ==
    << S("DISABLE_IRQ"), S("LOAD_CFG_FROM_GP_DATA") >>

\* A handler that re-enables interrupts before the wake-init.
WakeupFromRAM_Rest_EarlyEnable(c) ==
    << S("WATCHDOG_REFRESH"), SA("NVIC_ENABLE", "WAKEUP_IRQn"), S("ENABLE_IRQ"), S("ISB") >>
    \o Sleep_WakeupInit_Body(c)
    \o (IF c.ble_present THEN << SA("NVIC_ENABLE", "BLE") >> ELSE << >>)
    \o (IF c.app_addr THEN << S("CALL_APP_ADDR") >>
                      ELSE << S("WATCHDOG_REFRESH"), S("HALT") >>)
\* _Sys_PowerModes_WakeupFromRAM, once p_sleep_mode_cfg is known
WakeupFromRAM_Rest(c) ==
    << S("WATCHDOG_REFRESH"), SA("NVIC_ENABLE", "WAKEUP_IRQn") >>
    \o Sleep_WakeupInit_Body(c)
    \o (IF c.ble_present THEN << SA("NVIC_ENABLE", "BLE") >> ELSE << >>)
    \o << S("ENABLE_IRQ"), S("ISB") >>
    \o (IF c.app_addr THEN << S("CALL_APP_ADDR") >>
                      ELSE << S("WATCHDOG_REFRESH"), S("HALT") >>)

(***************************************************************************)
(* Statement execution.                                                    *)
(***************************************************************************)
Exec(k, r2, m2, o2) ==
    /\ At(k)
    /\ Step
    /\ reg' = r2
    /\ ram' = m2
    /\ obs' = o2
    /\ UNCHANGED <<cfg, op, retention, nvr>>

RegStmt(k, r2) == Exec(k, r2, ram, obs)

EnterOps == {"Sleep_Enter", "Standby_Enter", "DeepSleep_Enter"}

\* The section in which the system clock is the sleep RC clock: in an Enter
\* function from the switch to the RC clock, in the RAM wake handler from
\* its entry, until the wake-init has configured the clocks.
MaskedSection ==
    /\ \/ op \in EnterOps /\ Executed("SYSCLK_SELECT")
       \/ op = "WakeupFromRAM"
    /\ ~Executed("DIVIDER_CONFIG")

\* ---- processor ----
\* __enable_irq()
ENABLE_IRQ == RegStmt("ENABLE_IRQ", [reg EXCEPT !.PRIMASK = FALSE])
\* A disable that leaves PRIMASK as it is.
DISABLE_IRQ_Nop == RegStmt("DISABLE_IRQ", reg)
\* __disable_irq()
DISABLE_IRQ == RegStmt("DISABLE_IRQ", [reg EXCEPT !.PRIMASK = TRUE])
\* __ISB()
ISB == RegStmt("ISB", reg)
\* NVIC_EnableIRQ(...)
NVIC_ENABLE ==
    /\ At("NVIC_ENABLE")
    /\ RegStmt("NVIC_ENABLE",
          [reg EXCEPT !.NVIC_EN = @ \cup (IF Arg = "BLE" THEN BLE_IRQS ELSE {Arg})])
\* SYS_WATCHDOG_REFRESH()
WATCHDOG_REFRESH == Exec("WATCHDOG_REFRESH", reg, ram, [obs EXCEPT !.wdg_fed = TRUE])
\* Sys_Delay(...)
SYS_DELAY == RegStmt("SYS_DELAY", reg)

\* An enabled interrupt is taken: possible only while PRIMASK is clear.
ISR_Run ==
    /\ op \notin {"idle", "reset", "fault"}
    /\ ~reg.PRIMASK
    /\ reg.NVIC_EN # {}
    /\ obs' = [obs EXCEPT !.isr_masked = @ \/ MaskedSection]
    /\ UNCHANGED <<cfg, op, retention, todo, log, reg, ram, nvr>>

\* ---- clocks (clock.h, power_modes.c) ----
RcFreq(fsel) == CASE fsel = "3MHZ" -> 3000000 [] fsel = "12MHZ" -> 12000000
                  [] fsel = "24MHZ" -> 24000000 [] fsel = "48MHZ" -> 48000000

RFCLK_BASE_FREQ == 48000000
CK_DIV_1_6_PRESCALE_1_BYTE == 1
CK_DIV_1_6_PRESCALE_7_BYTE == 7

\* SystemCoreClockUpdate(): the core clock that the clock registers select.
CoreClock(r) ==
    IF r.SYS_CLKSRC = "RFCLK" THEN RFCLK_BASE_FREQ \div r.XTAL_PRESCALE
    ELSE RcFreq(r.RC_FSEL)

\* ACS->RCOSC_CTRL = (ACS->RCOSC_CTRL & ~FSEL) | RC_OSC_ENABLE
RCOSC_3MHZ_ENABLE ==
    RegStmt("RCOSC_3MHZ_ENABLE", [reg EXCEPT !.RC_FSEL = "3MHZ", !.RC_ENABLE = TRUE])

\* Sys_Clocks_SystemClkConfig(cfg)
\* SystemCoreClockUpdate(): the flash delay it programs for the core clock
\* ("the correct delays will be set after the switch", clock.h:53-55).
FlashDelayFor(r) == IF r.SYS_CLKSRC = "RCCLK" THEN r.RC_FSEL ELSE r.FLASH_DELAY

SYSCLK_SELECT ==
    /\ At("SYSCLK_SELECT")
    /\ LET r1 == [reg EXCEPT !.FLASH_DELAY = "48MHZ", !.SYS_CLKSRC = Arg]
       IN  RegStmt("SYSCLK_SELECT", [r1 EXCEPT !.SystemCoreClock = CoreClock(r1),
                                               !.FLASH_DELAY = FlashDelayFor(r1)])

\* The prescaler computed by Sys_PowerModes_XTAL_ClockInit (uint8_t).
XtalPrescale(freq) ==
    LET systemclk_div == (RFCLK_BASE_FREQ \div freq) % 256
    IN  IF systemclk_div > CK_DIV_1_6_PRESCALE_7_BYTE THEN CK_DIV_1_6_PRESCALE_7_BYTE
        ELSE IF systemclk_div < CK_DIV_1_6_PRESCALE_1_BYTE THEN CK_DIV_1_6_PRESCALE_1_BYTE
        ELSE systemclk_div

VDDRF_ENABLE == RegStmt("VDDRF_ENABLE", [reg EXCEPT !.VDDRF_ENABLE = TRUE])
WAIT_VDDRF_READY == reg.VDDRF_READY /\ RegStmt("WAIT_VDDRF_READY", reg)
VDDPA_CONNECT_VDDRF == RegStmt("VDDPA_CONNECT_VDDRF", [reg EXCEPT !.VDDPA_CTRL = "VDDPA_SW_VDDRF"])
\* An RF enable that powers the RF block and leaves the access bits alone.
RF_ENABLE_PowerOnly ==
    RegStmt("RF_ENABLE", [reg EXCEPT !.RF_POWER_CFG = @ \cup RF_POWER_BITS])
\* Sys_Power_RFEnable() (power.h)
RF_ENABLE ==
    RegStmt("RF_ENABLE", [reg EXCEPT !.RF_POWER_CFG = @ \cup RF_POWER_BITS,
                                     !.RF_ACCESS_CFG = @ \cup RF_ACCESS_BITS])
XTAL_START == RegStmt("XTAL_START", [reg EXCEPT !.XTAL_DISABLE = FALSE])
XTAL_PRESCALER_WRITE ==
    RegStmt("XTAL_PRESCALER_WRITE",
            [reg EXCEPT !.XTAL_PRESCALE = XtalPrescale(cfg.systemclk_freq)])
WAIT_CLK_DIG_READY == reg.CLK_DIG_READY /\ RegStmt("WAIT_CLK_DIG_READY", reg)

\* The internal-RC branch of _Sys_PowerModes_Wakeup_ClockInit: load the RC
\* trim and select the RC frequency and the flash delay.
RcFsel(khz) == CASE khz = 3000 -> "3MHZ" [] khz = 12000 -> "12MHZ"
                 [] khz = 24000 -> "24MHZ" [] khz = 48000 -> "48MHZ"
\* A variant without the fallback: on a failed load the oscillator and the
\* flash delay are left as they are.
RCOSC_TRIM_AND_FSEL_NoFallback ==
    LET target == cfg.systemclk_freq \div 1000
        found  == target \in nvr.rcosc
    IN  RegStmt("RCOSC_TRIM_AND_FSEL",
                IF found /\ target \in RcTargets
                THEN [reg EXCEPT !.RC_FTRIM = target, !.FLASH_DELAY = RcFsel(target),
                                 !.RC_FSEL = RcFsel(target), !.RC_ENABLE = TRUE]
                ELSE reg)
RCOSC_TRIM_AND_FSEL ==
    LET target == cfg.systemclk_freq \div 1000
        found  == target \in nvr.rcosc
        r1 == IF found THEN [reg EXCEPT !.RC_FTRIM = target] ELSE reg
        r2 == IF found
              THEN IF target \in RcTargets
                   THEN [r1 EXCEPT !.FLASH_DELAY = RcFsel(target),
                                   !.RC_FSEL = RcFsel(target), !.RC_ENABLE = TRUE]
                   ELSE r1
              ELSE [r1 EXCEPT !.RC_FTRIM = IF TARGET_RC12 \in nvr.rcosc THEN TARGET_RC12 ELSE @,
                              !.FLASH_DELAY = "12MHZ",
                              !.RC_FSEL = "12MHZ", !.RC_ENABLE = TRUE]
    IN  RegStmt("RCOSC_TRIM_AND_FSEL", r2)

\* Variant of Divisor that decrements whether or not the division is exact.
Divisor_AlwaysDecrement(core, target) ==
    (core \div target) - 1

\* One divisor of Sys_Clocks_DividerConfig (clock.c).
Divisor(core, target) ==
    IF core % target = 0 THEN (core \div target) - 1 ELSE core \div target

DIVIDER_CONFIG ==
    RegStmt("DIVIDER_CONFIG",
            [reg EXCEPT !.DIV_CFG = [core    |-> reg.SystemCoreClock,
                                     slowclk |-> Divisor(reg.SystemCoreClock, 1000000),
                                     bbclk   |-> Divisor(reg.SystemCoreClock, 8000000),
                                     dcclk   |-> Divisor(reg.SystemCoreClock, 4000000)]])

\* ---- sleep entry (power_modes.c:119-138) ----
IF_RF_ACCESS_ENABLE ==
    /\ At("IF_RF_ACCESS_ENABLE")
    /\ StepInto(IF "RF_ACCESS_ENABLE" \in reg.RF_ACCESS_CFG
                THEN << S("XTAL_DISABLE") >> ELSE << >>)
    /\ UNCHANGED <<cfg, op, retention, reg, ram, nvr, obs>>
XTAL_DISABLE ==
    RegStmt("XTAL_DISABLE", [reg EXCEPT !.XTAL_DISABLE = TRUE, !.CLK_DIG_READY = FALSE])
RF_ACCESS_DISABLE ==
    RegStmt("RF_ACCESS_DISABLE", [reg EXCEPT !.RF_ACCESS_CFG = @ \ RF_ACCESS_BITS])
RF_POWER_DISABLE ==
    RegStmt("RF_POWER_DISABLE", [reg EXCEPT !.RF_POWER_CFG = @ \ RF_POWER_BITS])
VDDPA_DISABLE == RegStmt("VDDPA_DISABLE", [reg EXCEPT !.VDDPA_CTRL = "VDDPA_SW_HIZ"])
VDDRF_DISABLE ==
    RegStmt("VDDRF_DISABLE", [reg EXCEPT !.VDDRF_ENABLE = FALSE, !.VDDRF_READY = FALSE])
PADS_RETENTION_ENABLE ==
    RegStmt("PADS_RETENTION_ENABLE", [reg EXCEPT !.PADS_RETENTION = TRUE])
STANDBY_VTRIM_WRITE ==
    RegStmt("STANDBY_VTRIM_WRITE", [reg EXCEPT !.VDDC_STANDBY = 1, !.VDDM_STANDBY = 1])
VDDRET_CTRL_WRITE ==
    /\ At("VDDRET_CTRL_WRITE")
    /\ RegStmt("VDDRET_CTRL_WRITE",
          [reg EXCEPT !.VDDRET_CTRL =
              [VDDMRET |-> Arg \in {"SLEEP_MEM_RETENTION", "SLEEP_CORE_RETENTION"},
               VDDCRET |-> Arg = "SLEEP_CORE_RETENTION",
               VDDTRET |-> cfg.vddt_ret]])
BOOT_GP_DATA_WRITE ==
    RegStmt("BOOT_GP_DATA_WRITE", [reg EXCEPT !.BOOT_GP_DATA = "MEM_ACCESS_CFG"])
PWR_MODES_CTRL_WRITE ==
    /\ At("PWR_MODES_CTRL_WRITE")
    /\ RegStmt("PWR_MODES_CTRL_WRITE", [reg EXCEPT !.PWR_MODES_CTRL = Arg])

\* ---- core retention (power_modes.c:170-219) ----
\* Sys_Trim_LoadDCDC(TRIM, TARGET_DCDC_1120) (trim.c:714-746)
Sys_Trim_LoadDCDC(r) ==
    IF TARGET_DCDC_1120 \in nvr.dcdc
    THEN [r EXCEPT !.VCC_CTRL.VTRIM =
              IF r.VCC_CTRL.BUCK THEN DcdcTrim1120.buck ELSE DcdcTrim1120.ldo]
    ELSE r

\* if (ACS_VDDC_CTRL->VTRIM_BYTE < VDDC_TRIM_1P10V_BYTE) { ... }
IF_VDDC_BELOW_1P10V ==
    IF reg.VDDC_VTRIM < VDDC_TRIM_1P10V_BYTE
    THEN LET vccLow == reg.VCC_CTRL.VTRIM < VCC_TRIM_1P10V
             m1 == [ram EXCEPT !.restore_trim = 1, !.vddc_trim_backup = reg.VDDC_VTRIM]
             m2 == IF vccLow THEN [m1 EXCEPT !.ACS_VCC_CTRL_backup = reg.VCC_CTRL] ELSE m1
             r1 == IF vccLow THEN Sys_Trim_LoadDCDC(reg) ELSE reg
         IN  Exec("IF_VDDC_BELOW_1P10V",
                  [r1 EXCEPT !.VDDC_VTRIM = VDDC_TRIM_1P10V_BYTE], m2,
                  [obs EXCEPT !.vddc_writes = @ + 1])
    ELSE Exec("IF_VDDC_BELOW_1P10V", reg, ram, obs)

\* A restore that writes VCC_CTRL back and forgets the VDDC trim.
IF_RESTORE_TRIM_VccOnly ==
    IF ram.restore_trim # 0
    THEN Exec("IF_RESTORE_TRIM", [reg EXCEPT !.VCC_CTRL = ram.ACS_VCC_CTRL_backup],
              [ram EXCEPT !.restore_trim = 0], obs)
    ELSE Exec("IF_RESTORE_TRIM", reg, ram, obs)
\* if (restore_trim) { ... }
IF_RESTORE_TRIM ==
    IF ram.restore_trim # 0
    THEN Exec("IF_RESTORE_TRIM",
              [reg EXCEPT !.VCC_CTRL = ram.ACS_VCC_CTRL_backup,
                          !.VDDC_VTRIM = ram.vddc_trim_backup],
              [ram EXCEPT !.restore_trim = 0],
              [obs EXCEPT !.vddc_writes = @ + 1])
    ELSE Exec("IF_RESTORE_TRIM", reg, ram, obs)

\* ---- memory retention (power_modes.c:221-255, 855-868) ----
APP_PTR_WRITE_0_TO_6 ==
    Exec("APP_PTR_WRITE_0_TO_6", reg,
         [ram EXCEPT !.mem[app_ptr] =
             [i \in 1..WAKEUP_BLOCK_WORDS |->
                 CASE i = 1 -> stack
                   [] i = 2 -> reg.VTOR
                   [] i = 3 -> WakeupFromRAM_addr
                   [] i \in 4..7 -> Zero32
                   [] OTHER -> @[i]]],
         obs)
CRC_CONFIG == RegStmt("CRC_CONFIG", [reg EXCEPT !.CRC_CFG = "CRC_32"])
CRC_32_INIT ==
    RegStmt("CRC_32_INIT", [reg EXCEPT !.CRC_VALUE = <<CRC_32_INIT_HALF, CRC_32_INIT_HALF>>])

RECURSIVE CrcWords(_, _, _, _)
CrcWords(value, words, i, n) ==
    IF i > n THEN value
    ELSE IF i = n THEN Sys_CRC_Add(value, words[i])
    ELSE LET mid == (i + n) \div 2
         IN  CHOOSE r \in { CrcWords(v, words, mid + 1, n) :
                                v \in {CrcWords(value, words, i, mid)} } : TRUE

\* The loop that adds words[i] to words[n], in this order, to the engine.
CrcLoop(value, words, i, n) ==
    CHOOSE r \in { CrcWords(v, w, i, n) : v \in {value}, w \in {words} } : TRUE

\* A loop that stops one word early.
CRC_ADD_WORDS_OneShort ==
    RegStmt("CRC_ADD_WORDS",
            [reg EXCEPT !.CRC_VALUE = CrcLoop(@, ram.mem[Wakeup_addr], 1, CRC_WORDS - 1)])
\* for (i = 0; i < 7; i++) Sys_CRC_Add(crc, *cptr++, 32), from &__Wakeup_addr
CRC_ADD_WORDS ==
    RegStmt("CRC_ADD_WORDS",
            [reg EXCEPT !.CRC_VALUE = CrcLoop(@, ram.mem[Wakeup_addr], 1, CRC_WORDS)])
APP_PTR_WRITE_7_CRC ==
    Exec("APP_PTR_WRITE_7_CRC", reg,
         [ram EXCEPT !.mem[app_ptr][WAKEUP_BLOCK_WORDS] = Sys_CRC_GetFinalValue(reg.CRC_VALUE)],
         obs)
WAKEUP_ADDR_WRITE == RegStmt("WAKEUP_ADDR_WRITE", [reg EXCEPT !.WAKEUP_ADDR = Wakeup_addr])
GP_DATA_WRITE == RegStmt("GP_DATA_WRITE", [reg EXCEPT !.GP_DATA = "p_sleep_mode_cfg"])

\* ---- wake-init (power_modes.c:605-667, 669-731, 329-382) ----
CLK_DET_ENABLE == RegStmt("CLK_DET_ENABLE", [reg EXCEPT !.CLK_DET.ENABLE = TRUE])
\* A wait for the clock detector that gives up: the loop is left whether or
\* not the flag is asserted.
WAIT_CLOCK_PRESENT_Timeout == RegStmt("WAIT_CLOCK_PRESENT", reg)
WAIT_CLOCK_PRESENT == reg.CLK_DET.CLOCK_PRESENT /\ RegStmt("WAIT_CLOCK_PRESENT", reg)
CLK_DET_CLEAR_RESET_IGNORE ==
    RegStmt("CLK_DET_CLEAR_RESET_IGNORE", [reg EXCEPT !.CLK_DET.RESET_IGNORE = FALSE])
\* p_sleep_mode_cfg->app_gpio_config()
APP_GPIO_CONFIG == RegStmt("APP_GPIO_CONFIG", reg)
PADS_RETENTION_DISABLE ==
    RegStmt("PADS_RETENTION_DISABLE", [reg EXCEPT !.PADS_RETENTION = FALSE])
CLEAR_RESET_FLAGS == RegStmt("CLEAR_RESET_FLAGS", [reg EXCEPT !.RESET_FLAGS = FALSE])
IF_VDDTRET_ENABLE ==
    /\ At("IF_VDDTRET_ENABLE")
    /\ StepInto(IF reg.VDDRET_CTRL.VDDTRET THEN BBTimerWakeup_Body ELSE << >>)
    /\ UNCHANGED <<cfg, op, retention, reg, ram, nvr, obs>>
BBIF_CTRL_DEEP_SLEEP ==
    RegStmt("BBIF_CTRL_DEEP_SLEEP", [reg EXCEPT !.BBIF_CTRL = {"BB_CLK_ENABLE", "BB_DEEP_SLEEP"}])
BB_WAKEUP_SET == RegStmt("BB_WAKEUP_SET", [reg EXCEPT !.BBIF_CTRL = @ \cup {"BB_WAKEUP"}])
WAIT_BB_MASTER_CLK ==
    reg.BBIF_STATUS.CLK = "MASTER_CLK" /\ RegStmt("WAIT_BB_MASTER_CLK", reg)
BB_WAKEUP_CLEAR == RegStmt("BB_WAKEUP_CLEAR", [reg EXCEPT !.BBIF_CTRL = @ \ {"BB_WAKEUP"}])
WAKEUP_BB_TIMER_CLEAR ==
    RegStmt("WAKEUP_BB_TIMER_CLEAR", [reg EXCEPT !.WAKEUP_CTRL = @ \ {"WAKEUP_BB_TIMER"}])
\* if (ACS->WAKEUP_CTRL) if (!NVIC_GetPendingIRQ(WAKEUP_IRQn)) NVIC_SetPendingIRQ(WAKEUP_IRQn)
WAKEUP_IRQ_SET_PENDING ==
    RegStmt("WAKEUP_IRQ_SET_PENDING",
            [reg EXCEPT !.NVIC_PEND = IF reg.WAKEUP_CTRL # {} THEN @ \cup {"WAKEUP_IRQn"} ELSE @])

\* ---- RF and baseband register images (power_modes.c:521-603) ----
RF_BANK_SELECT ==
    /\ At("RF_BANK_SELECT")
    /\ RegStmt("RF_BANK_SELECT", [reg EXCEPT !.RF_BANK = Arg])
DMA_START ==
    /\ At("DMA_START")
    /\ RegStmt("DMA_START",
               [reg EXCEPT !.DMA = [transfer |-> Arg, enabled |-> TRUE, complete |-> FALSE]])
WAIT_DMA_COMPLETE == reg.DMA.complete /\ RegStmt("WAIT_DMA_COMPLETE", reg)
DMA_STOP ==
    RegStmt("DMA_STOP", [reg EXCEPT !.DMA.enabled = FALSE,
                                    !.NVIC_PEND = @ \ {"DMA_IRQn"}])
\* The DMA channel performs the programmed copy and raises its completion flag.
HW_DMA_Transfer ==
    /\ reg.DMA.enabled /\ ~reg.DMA.complete
    /\ LET t == reg.DMA.transfer
           done == [reg EXCEPT !.DMA.complete = TRUE, !.NVIC_PEND = @ \cup {"DMA_IRQn"}]
       IN  CASE t = "RF_TO_IMAGE_2" ->
                  /\ ram' = [ram EXCEPT !.rf_registers_image_2 = reg.RF[reg.RF_BANK]]
                  /\ reg' = done
             [] t = "RF_TO_IMAGE_1" ->
                  /\ ram' = [ram EXCEPT !.rf_registers_image_1 = reg.RF[reg.RF_BANK]]
                  /\ reg' = done
             [] t = "BB_TO_IMAGE" ->
                  /\ ram' = [ram EXCEPT !.bb_registers_image = reg.BB,
                                        !.bb_image_DEEPSLCNTL = reg.BB_DEEPSLCNTL]
                  /\ reg' = done
             [] t = "IMAGE_2_TO_RF" ->
                  /\ reg' = [done EXCEPT !.RF[reg.RF_BANK] = ram.rf_registers_image_2]
                  /\ ram' = ram
             [] t = "IMAGE_1_TO_RF" ->
                  /\ reg' = [done EXCEPT !.RF[reg.RF_BANK] = ram.rf_registers_image_1]
                  /\ ram' = ram
             [] t = "IMAGE_TO_BB" ->
                  /\ reg' = [done EXCEPT !.BB = ram.bb_registers_image,
                                         !.BB_DEEPSLCNTL = ram.bb_image_DEEPSLCNTL]
                  /\ ram' = ram
    /\ UNCHANGED <<cfg, op, retention, todo, log, nvr, obs>>
WAIT_BB_LOW_POWER_CLK ==
    reg.BBIF_STATUS.CLK # "MASTER_CLK" /\ RegStmt("WAIT_BB_LOW_POWER_CLK", reg)
\* DEEP_SLEEP_ON_0 | OSC_SLEEP_EN_0 | RADIO_SLEEP_EN_0
BB_IMAGE_DEEPSLCNTL ==
    Exec("BB_IMAGE_DEEPSLCNTL", reg, [ram EXCEPT !.bb_image_DEEPSLCNTL = {}], obs)
WAIT_BB_OSC_DISABLED ==
    ~reg.BBIF_STATUS.OSC_ENABLED /\ RegStmt("WAIT_BB_OSC_DISABLED", reg)

\* ---- hardware flags polled by the busy-waits ----
HwSets(k, r2) ==
    /\ At(k)
    /\ reg' = r2
    /\ UNCHANGED <<cfg, op, retention, todo, log, ram, nvr, obs>>
HW_ClockPresent ==
    /\ reg.CLK_DET.ENABLE /\ ~reg.CLK_DET.CLOCK_PRESENT
    /\ HwSets("WAIT_CLOCK_PRESENT", [reg EXCEPT !.CLK_DET.CLOCK_PRESENT = TRUE])
HW_VDDRF_Ready ==
    /\ reg.VDDRF_ENABLE /\ ~reg.VDDRF_READY
    /\ HwSets("WAIT_VDDRF_READY", [reg EXCEPT !.VDDRF_READY = TRUE])
HW_ClkDigReady ==
    /\ ~reg.XTAL_DISABLE /\ ~reg.CLK_DIG_READY
    /\ HwSets("WAIT_CLK_DIG_READY", [reg EXCEPT !.CLK_DIG_READY = TRUE])
HW_BB_LowPowerClk ==
    /\ reg.BBIF_STATUS.CLK = "MASTER_CLK"
    /\ HwSets("WAIT_BB_LOW_POWER_CLK", [reg EXCEPT !.BBIF_STATUS.CLK = "LOW_POWER_CLK"])
HW_BB_OscDisabled ==
    /\ reg.BBIF_STATUS.OSC_ENABLED
    /\ HwSets("WAIT_BB_OSC_DISABLED", [reg EXCEPT !.BBIF_STATUS.OSC_ENABLED = FALSE])
HW_BB_MasterClk ==
    /\ reg.BBIF_STATUS.CLK # "MASTER_CLK" /\ "BB_WAKEUP" \in reg.BBIF_CTRL
    /\ HwSets("WAIT_BB_MASTER_CLK",
              [reg EXCEPT !.BBIF_STATUS = [CLK |-> "MASTER_CLK", OSC_ENABLED |-> TRUE]])

\* ---- the wait primitive and what the hardware does at it ----
\* A wake event or an enabled interrupt is pending: the primitive returns
\* at once, without power collapse.
\* The primitive returns at once and the function returns without wake-init.
WFI_Immediate_EarlyReturn ==
    /\ At("WFI")
    /\ todo' = << S("ENABLE_IRQ"), S("ISB"), S("RETURN") >>
    /\ log' = Append(log, Head(todo))
    /\ obs' = [obs EXCEPT !.wfi = "immediate"]
    /\ UNCHANGED <<cfg, op, retention, reg, ram, nvr>>
WFI_Immediate ==
    Exec("WFI", reg, ram, [obs EXCEPT !.wfi = "immediate"])

\* Registers of the switched domains after power was removed from them.
PowerLoss(r) ==
    [r EXCEPT !.RF = [b \in {"0", "1"} |-> [i \in 1..BankWords |-> 0]],
              !.BB = [i \in 1..BankWords |-> 0],
              !.BB_DEEPSLCNTL = {},
              !.WAKEUP_CTRL = {"WAKEUP_EVENT"} \cup
                  (IF r.VDDRET_CTRL.VDDTRET THEN {"WAKEUP_BB_TIMER"} ELSE {})]

\* Core retention and standby: the power mode is entered and a wake event
\* resumes the processor behind the wait primitive.
WFI_Resume ==
    /\ At("WFI") /\ Arg = "wfi_for_power_mode"
    /\ Exec("WFI", PowerLoss(reg), ram, [obs EXCEPT !.wfi = "collapsed"])

\* Registers after the reset that ends a power mode without core retention.
ResetRegs(r) ==
    [PowerLoss(r) EXCEPT
        !.PRIMASK = FALSE, !.NVIC_EN = {}, !.NVIC_PEND = {},
        !.SYS_CLKSRC = "RCCLK", !.RC_FSEL = "3MHZ", !.RC_ENABLE = TRUE,
        !.SystemCoreClock = 3000000, !.FLASH_DELAY = "3MHZ",
        !.XTAL_DISABLE = TRUE, !.CLK_DIG_READY = FALSE,
        !.RF_ACCESS_CFG = {}, !.RF_POWER_CFG = {},
        !.VDDRF_ENABLE = FALSE, !.VDDRF_READY = FALSE,
        !.CLK_DET = [ENABLE |-> FALSE, CLOCK_PRESENT |-> FALSE, RESET_IGNORE |-> TRUE],
        !.RESET_FLAGS = TRUE, !.PWR_MODES_CTRL = "PWR_RUN_MODE",
        !.RF_BANK = "0", !.BBIF_CTRL = {"BB_CLK_ENABLE"},
        !.BBIF_STATUS = [CLK |-> "MASTER_CLK", OSC_ENABLED |-> TRUE],
        !.DMA = [transfer |-> "none", enabled |-> FALSE, complete |-> FALSE],
        !.CRC_CFG = "none", !.CRC_VALUE = Zero32]

\* The wake configuration block the boot ROM accepts: the block the wake
\* address register designates carries the CRC of its first seven words.
WakeBlockValid ==
    /\ reg.WAKEUP_ADDR \in DOMAIN ram.mem
    /\ LET b == ram.mem[reg.WAKEUP_ADDR]
       IN  b[WAKEUP_BLOCK_WORDS] =
              Sys_CRC_GetFinalValue(
                  CrcLoop(<<CRC_32_INIT_HALF, CRC_32_INIT_HALF>>, b, 1, CRC_WORDS))

\* Static variables after the C start-up code has run again.
StartupRam(m) ==
    [m EXCEPT !.restore_trim = 0, !.vddc_trim_backup = 0,
              !.ACS_VCC_CTRL_backup = [VTRIM |-> 0, BUCK |-> FALSE],
              !.rf_registers_image_1 = [i \in 1..BankWords |-> 0],
              !.rf_registers_image_2 = [i \in 1..BankWords |-> 0],
              !.bb_registers_image = [i \in 1..BankWords |-> 0],
              !.bb_image_DEEPSLCNTL = {}]

\* No core retention: the power mode is entered and a wake event resets the
\* processor.  With memory retention and BOOT_CUSTOM the boot ROM resumes at
\* the wake entry address of the wake configuration block; otherwise the
\* application restarts.
WFI_Reset ==
    /\ At("WFI") /\ Arg = "WFI"
    /\ reg' = ResetRegs(reg)
    /\ log' = << >>
    /\ obs' = [obs EXCEPT !.wfi = "collapsed", !.wdg_fed = FALSE]
    /\ IF /\ op = "Sleep_Enter" /\ retention = "SLEEP_MEM_RETENTION"
          /\ reg.BOOT_CFG = "BOOT_CUSTOM" /\ WakeBlockValid
       THEN /\ op' = "WakeupFromRAM"
            /\ todo' = WakeupFromRAM_Body
            /\ ram' = ram
       ELSE /\ op' = "reset"
            /\ todo' = << >>
            /\ ram' = StartupRam(ram)
    /\ UNCHANGED <<cfg, retention, nvr>>

\* ---- _Sys_PowerModes_WakeupFromRAM ----
\* p_sleep_mode_cfg = (sleep_mode_cfg*)ACS->GP_DATA
LOAD_CFG_FROM_GP_DATA ==
    /\ At("LOAD_CFG_FROM_GP_DATA")
    /\ log' = Append(log, Head(todo))
    /\ IF reg.GP_DATA = "p_sleep_mode_cfg"
       THEN todo' = WakeupFromRAM_Rest(cfg) /\ op' = op
       ELSE todo' = << >> /\ op' = "fault"
    /\ UNCHANGED <<cfg, retention, reg, ram, nvr, obs>>
\* p_sleep_mode_cfg->app_addr()
CALL_APP_ADDR ==
    /\ At("CALL_APP_ADDR")
    /\ log' = Append(log, Head(todo))
    /\ todo' = << >>
    /\ op' = "idle"
    /\ obs' = [obs EXCEPT !.app_called = TRUE]
    /\ UNCHANGED <<cfg, retention, reg, ram, nvr>>
\* while (1) { }
HALT ==
    /\ At("HALT")
    /\ obs' = [obs EXCEPT !.spin = ~@, !.wdg_fed = FALSE]
    /\ UNCHANGED <<cfg, op, retention, todo, log, reg, ram, nvr>>
\* return to the caller
RETURN ==
    /\ At("RETURN")
    /\ log' = Append(log, Head(todo))
    /\ todo' = << >>
    /\ op' = "idle"
    /\ UNCHANGED <<cfg, retention, reg, ram, nvr, obs>>

(***************************************************************************)
(* Calls made by the application.                                          *)
(***************************************************************************)
PowerModes_Init(mode) ==
    /\ op = "idle"
    /\ reg' = [reg EXCEPT !.WAKEUP_CFG = mode, !.BOOT_CFG = cfg.boot_cfg]
    /\ UNCHANGED <<cfg, op, retention, todo, log, ram, nvr, obs>>

Sys_PowerModes_Sleep_Init == PowerModes_Init("sleep_mode_cfg")
Sys_PowerModes_Standby_Init == PowerModes_Init("standby_mode_cfg")
Sys_PowerModes_DeepSleep_Init == PowerModes_Init("deepsleep_mode_cfg")

Call(mode, name, body, ret) ==
    /\ op = "idle"
    /\ reg.WAKEUP_CFG = mode
    /\ obs.calls < MaxCalls
    /\ op' = name
    /\ retention' = ret
    /\ todo' = body
    /\ log' = << >>
    /\ obs' = [obs EXCEPT !.pre = [pads |-> reg.PADS_RETENTION,
                                   rf_access |-> reg.RF_ACCESS_CFG,
                                   vddc |-> reg.VDDC_VTRIM, vcc |-> reg.VCC_CTRL,
                                   rf |-> reg.RF, bb |-> reg.BB,
                                   deepslcntl |-> reg.BB_DEEPSLCNTL],
                          !.wfi = "none", !.vddc_writes = 0,
                          !.app_called = FALSE, !.calls = @ + 1,
                          !.wdg_fed = FALSE]
    /\ UNCHANGED <<cfg, reg, ram, nvr>>

Sys_PowerModes_Sleep_Enter(retention_type) ==
    Call("sleep_mode_cfg", "Sleep_Enter",
         Sleep_Enter_Body(cfg, retention_type), retention_type)
Sys_PowerModes_Standby_Enter ==
    Call("standby_mode_cfg", "Standby_Enter", Standby_Enter_Body(cfg), "none")
Sys_PowerModes_DeepSleep_Enter ==
    Call("deepsleep_mode_cfg", "DeepSleep_Enter", DeepSleep_Enter_Body(cfg), "none")

\* The restarted application calls the reset wake-up routine.
Sys_PowerModes_Wakeup_WithReset ==
    /\ op = "reset"
    /\ op' = "Wakeup_WithReset"
    /\ todo' = Wakeup_WithReset_Body(cfg) \o << S("RETURN") >>
    /\ log' = << >>
    /\ UNCHANGED <<cfg, retention, reg, ram, nvr, obs>>

Next ==
    \/ Sys_PowerModes_Sleep_Init \/ Sys_PowerModes_Standby_Init
    \/ Sys_PowerModes_DeepSleep_Init
    \/ (\E retention_type \in Sleep_Retention_t :
           Sys_PowerModes_Sleep_Enter(retention_type))
    \/ Sys_PowerModes_Standby_Enter
    \/ Sys_PowerModes_DeepSleep_Enter \/ Sys_PowerModes_Wakeup_WithReset
    \/ ENABLE_IRQ \/ DISABLE_IRQ \/ ISB \/ NVIC_ENABLE \/ WATCHDOG_REFRESH \/ SYS_DELAY
    \/ ISR_Run
    \/ RCOSC_3MHZ_ENABLE \/ SYSCLK_SELECT \/ VDDRF_ENABLE \/ WAIT_VDDRF_READY
    \/ VDDPA_CONNECT_VDDRF \/ RF_ENABLE \/ XTAL_START \/ XTAL_PRESCALER_WRITE
    \/ WAIT_CLK_DIG_READY \/ RCOSC_TRIM_AND_FSEL \/ DIVIDER_CONFIG
    \/ IF_RF_ACCESS_ENABLE \/ XTAL_DISABLE \/ RF_ACCESS_DISABLE \/ RF_POWER_DISABLE
    \/ VDDPA_DISABLE \/ VDDRF_DISABLE \/ PADS_RETENTION_ENABLE \/ STANDBY_VTRIM_WRITE
    \/ VDDRET_CTRL_WRITE \/ BOOT_GP_DATA_WRITE \/ PWR_MODES_CTRL_WRITE
    \/ IF_VDDC_BELOW_1P10V \/ IF_RESTORE_TRIM
    \/ APP_PTR_WRITE_0_TO_6 \/ CRC_CONFIG \/ CRC_32_INIT \/ CRC_ADD_WORDS
    \/ APP_PTR_WRITE_7_CRC \/ WAKEUP_ADDR_WRITE \/ GP_DATA_WRITE
    \/ CLK_DET_ENABLE \/ WAIT_CLOCK_PRESENT \/ CLK_DET_CLEAR_RESET_IGNORE
    \/ APP_GPIO_CONFIG \/ PADS_RETENTION_DISABLE \/ CLEAR_RESET_FLAGS
    \/ IF_VDDTRET_ENABLE \/ BBIF_CTRL_DEEP_SLEEP \/ BB_WAKEUP_SET \/ WAIT_BB_MASTER_CLK
    \/ BB_WAKEUP_CLEAR \/ WAKEUP_BB_TIMER_CLEAR \/ WAKEUP_IRQ_SET_PENDING
    \/ RF_BANK_SELECT \/ DMA_START \/ WAIT_DMA_COMPLETE \/ DMA_STOP \/ HW_DMA_Transfer
    \/ WAIT_BB_LOW_POWER_CLK \/ BB_IMAGE_DEEPSLCNTL \/ WAIT_BB_OSC_DISABLED
    \/ HW_ClockPresent \/ HW_VDDRF_Ready \/ HW_ClkDigReady
    \/ HW_BB_LowPowerClk \/ HW_BB_OscDisabled \/ HW_BB_MasterClk
    \/ WFI_Immediate \/ WFI_Resume \/ WFI_Reset
    \/ LOAD_CFG_FROM_GP_DATA \/ CALL_APP_ADDR \/ HALT \/ RETURN

Spec == Init /\ [][Next]_vars

(***************************************************************************)
(* Core-retention sleep with every combination of the voltage trims.  The  *)
(* application may reprogram the trims between two cycles.                 *)
(***************************************************************************)
CoreCfgSet ==
    { c \in CfgSet : /\ ~c.ble_present /\ ~c.vddt_ret /\ c.app_addr
                     /\ c.boot_cfg \in {"BOOT_FLASH_XTAL_DISABLE",
                                        "BOOT_FLASH_XTAL_DEFAULT_TRIM"} }

InitCore == InitFrom(CoreCfgSet, BOOLEAN, TrimValues, VccValues, Garbage, NvrSet)

\* The application writes the trims of VDDC and VCC (the trim loaders of
\* trim.c) while it runs.
App_WriteTrims ==
    /\ op = "idle"
    /\ obs.calls < MaxCalls
    /\ \E vddc \in TrimValues, vcc \in VccValues :
          reg' = [reg EXCEPT !.VDDC_VTRIM = vddc, !.VCC_CTRL = vcc]
    /\ UNCHANGED <<cfg, op, retention, todo, log, ram, nvr, obs>>

NextCore ==
    \/ Sys_PowerModes_Sleep_Init
    \/ Sys_PowerModes_Sleep_Enter("SLEEP_CORE_RETENTION")
    \/ App_WriteTrims
    \/ ENABLE_IRQ \/ DISABLE_IRQ \/ ISB \/ WATCHDOG_REFRESH \/ ISR_Run
    \/ RCOSC_3MHZ_ENABLE \/ SYSCLK_SELECT \/ VDDRF_ENABLE \/ WAIT_VDDRF_READY
    \/ VDDPA_CONNECT_VDDRF \/ RF_ENABLE \/ XTAL_START \/ XTAL_PRESCALER_WRITE
    \/ WAIT_CLK_DIG_READY \/ RCOSC_TRIM_AND_FSEL \/ DIVIDER_CONFIG
    \/ IF_RF_ACCESS_ENABLE \/ XTAL_DISABLE \/ RF_ACCESS_DISABLE \/ RF_POWER_DISABLE
    \/ VDDPA_DISABLE \/ VDDRF_DISABLE \/ PADS_RETENTION_ENABLE
    \/ VDDRET_CTRL_WRITE \/ BOOT_GP_DATA_WRITE \/ PWR_MODES_CTRL_WRITE
    \/ IF_VDDC_BELOW_1P10V \/ IF_RESTORE_TRIM
    \/ CLK_DET_ENABLE \/ WAIT_CLOCK_PRESENT \/ CLK_DET_CLEAR_RESET_IGNORE
    \/ APP_GPIO_CONFIG \/ PADS_RETENTION_DISABLE \/ CLEAR_RESET_FLAGS
    \/ HW_ClockPresent \/ HW_VDDRF_Ready \/ HW_ClkDigReady
    \/ WFI_Immediate \/ WFI_Resume \/ RETURN

SpecCore == InitCore /\ [][NextCore]_vars

(***************************************************************************)
(* Properties of the entry sequence.                                       *)
(***************************************************************************)
\* The steps of the entry sequence, by the kind of their statement.
EntrySteps ==
    {"ENABLE_IRQ", "DISABLE_IRQ", "SYSCLK_SELECT", "XTAL_DISABLE", "RF_ACCESS_DISABLE",
     "RF_POWER_DISABLE", "VDDPA_DISABLE", "VDDRF_DISABLE", "PADS_RETENTION_ENABLE",
     "STANDBY_VTRIM_WRITE", "VDDRET_CTRL_WRITE", "PWR_MODES_CTRL_WRITE"}
IsEntryStep(k) == k \in EntrySteps
\* The entry steps executed so far by the current call, in order.
EntryTrace == SelectSeq(Kinds(log), IsEntryStep)
AtSleepInstruction == op \in EnterOps /\ At("WFI")
RfAccessAtEntry == "RF_ACCESS_ENABLE" \in obs.pre.rf_access
XtalStep == IF RfAccessAtEntry THEN << "XTAL_DISABLE" >> ELSE << >>
RfShutdown == << "RF_ACCESS_DISABLE", "RF_POWER_DISABLE", "VDDPA_DISABLE", "VDDRF_DISABLE" >>
ModeWritten ==
    CASE op = "Sleep_Enter" -> "PWR_SLEEP_MODE"
      [] op = "Standby_Enter" -> "PWR_STANDBY_MODE"
      [] op = "DeepSleep_Enter" -> "PWR_DEEP_SLEEP_MODE"
      [] OTHER -> "none"

\* C1 (as amended): at the sleep instruction, Sleep_Enter has performed, in
\* this order, enable interrupts, disable interrupts, switch to the RC clock,
\* disable the crystal if RF access was active, disable RF access, RF/BB
\* power, VDDPA and VDDRF, enable pad retention, write the retention
\* regulators, write the power mode; Standby_Enter the same steps except that
\* it writes the standby trims BEFORE it enables pad retention and has no
\* retention regulators to write; DeepSleep_Enter only enable interrupts,
\* disable interrupts, switch to the RC clock, enable pad retention, write
\* the power mode.  The power mode write is the last statement before the
\* sleep instruction and selects the mode of the function.
C1_EntryOrderPerMode ==
    AtSleepInstruction =>
        /\ log[Len(log)] = SA("PWR_MODES_CTRL_WRITE", ModeWritten)
        /\ reg.PWR_MODES_CTRL = ModeWritten
        /\ EntryTrace =
             CASE op = "Sleep_Enter" ->
                    << "ENABLE_IRQ", "DISABLE_IRQ", "SYSCLK_SELECT" >> \o XtalStep \o RfShutdown
                    \o << "PADS_RETENTION_ENABLE", "VDDRET_CTRL_WRITE", "PWR_MODES_CTRL_WRITE" >>
               [] op = "Standby_Enter" ->
                    << "ENABLE_IRQ", "DISABLE_IRQ", "SYSCLK_SELECT" >> \o XtalStep \o RfShutdown
                    \o << "STANDBY_VTRIM_WRITE", "PADS_RETENTION_ENABLE", "PWR_MODES_CTRL_WRITE" >>
               [] op = "DeepSleep_Enter" ->
                    << "ENABLE_IRQ", "DISABLE_IRQ", "SYSCLK_SELECT",
                       "PADS_RETENTION_ENABLE", "PWR_MODES_CTRL_WRITE" >>

\* Standby_Enter reaches the sleep instruction after it has disabled the crystal.
C1_Witness ==
    op = "Standby_Enter" /\ At("WFI") /\ Executed("XTAL_DISABLE")

\* The mode-specific retention configuration of each entry function.
RetentionConfig ==
    CASE op = "Sleep_Enter" -> << "VDDRET_CTRL_WRITE" >>
      [] op = "Standby_Enter" -> << "STANDBY_VTRIM_WRITE" >>
      [] OTHER -> << >>

\* C1 (as stated): at the sleep instruction every entry function has
\* performed, in this order, enable interrupts, disable interrupts, switch to
\* the RC clock, disable the crystal if RF access was active, disable RF
\* access, RF/BB power, VDDPA, VDDRF, enable pad retention, the mode-specific
\* retention configuration, write the power mode.
C1_AsStated ==
    AtSleepInstruction =>
        EntryTrace = << "ENABLE_IRQ", "DISABLE_IRQ", "SYSCLK_SELECT" >> \o XtalStep \o RfShutdown
                     \o << "PADS_RETENTION_ENABLE" >> \o RetentionConfig
                     \o << "PWR_MODES_CTRL_WRITE" >>

(***************************************************************************)
(* Properties of the path behind the wait primitive.                       *)
(***************************************************************************)
\* The statements the current call has executed after its wait primitive.
PostWfi == SubSeq(log, Last("WFI") + 1, Len(log))
BehindWfi == op \in EnterOps /\ Executed("WFI")
IsPrefix(a, b) == Len(a) <= Len(b) /\ SubSeq(b, 1, Len(a)) = a
\* The complete wake-init of the entry function in progress: the restore of
\* the trims (core retention), the body of its wake-init routine and, in the
\* sleep routine, the baseband timer pulse its last conditional selects.
WakeInitOfCall ==
    CASE op = "Sleep_Enter" ->
           (IF retention = "SLEEP_CORE_RETENTION" THEN << S("IF_RESTORE_TRIM") >> ELSE << >>)
           \o Sleep_WakeupInit_Body(cfg)
           \o (IF cfg.ble_present /\ reg.VDDRET_CTRL.VDDTRET THEN BBTimerWakeup_Body ELSE << >>)
      [] op = "Standby_Enter" -> Standby_WakeupInit_Body(cfg)
      [] op = "DeepSleep_Enter" -> Wakeup_WithReset_Init_Body(cfg)
      [] OTHER -> << >>
\* The statements between the end of the wake-init and the return.
ReturnOfCall ==
    IF op = "DeepSleep_Enter"
    THEN << S("ENABLE_IRQ"), S("ISB"), S("ENABLE_IRQ"), S("ISB") >>
    ELSE << S("ENABLE_IRQ"), S("ISB") >>

\* C2: in every entry function, whatever made the wait primitive return
\* (power collapse and wake, or a pending event), the statements executed
\* behind it are the complete wake-init of the function, then the interrupt
\* enable, then the return: interrupts stay masked until the wake-init is
\* complete, and at the return the executed path is the same for both cases.
C2_SamePathAfterWfi ==
    BehindWfi =>
        /\ obs.wfi \in {"immediate", "collapsed"}
        /\ IsPrefix(PostWfi, WakeInitOfCall \o ReturnOfCall)
        /\ ~reg.PRIMASK => Len(PostWfi) > Len(WakeInitOfCall)
        /\ At("RETURN") => /\ PostWfi = WakeInitOfCall \o ReturnOfCall
                           /\ ~reg.PRIMASK

\* Standby_Enter is about to return after its wait primitive returned at once.
C2_Witness ==
    /\ op = "Standby_Enter" /\ At("RETURN") /\ obs.wfi = "immediate"
    /\ cfg.ble_present /\ Executed("WAKEUP_BB_TIMER_CLEAR")

(***************************************************************************)
(* Properties of the interrupt masking.                                    *)
(***************************************************************************)
\* C3: while the system clock is the sleep RC clock (in an entry function
\* from the switch to the RC clock, in the memory-retention wake handler
\* from its entry, until the wake-init has configured the clocks) interrupts
\* are globally masked and no interrupt service routine has executed; the
\* only unmasked instant is the entry of the wake handler, before its first
\* statement (the disable), where no interrupt line is enabled.
C3_MaskedOnSleepClock ==
    /\ ~obs.isr_masked
    /\ MaskedSection =>
          \/ reg.PRIMASK
          \/ op = "WakeupFromRAM" /\ At("DISABLE_IRQ") /\ reg.NVIC_EN = {}

\* The wake handler waits for the clock detector with the wake interrupt
\* enabled in the NVIC.
C3_Witness ==
    /\ op = "WakeupFromRAM" /\ At("WAIT_CLOCK_PRESENT")
    /\ "WAKEUP_IRQn" \in reg.NVIC_EN /\ MaskedSection

(***************************************************************************)
(* Properties of the state after Init, Enter and the full wake sequence.   *)
(***************************************************************************)
\* The wake sequence of the current cycle is complete: an entry function is
\* about to return, the reset wake-up routine is about to return, or the RAM
\* wake handler is about to leave for the application or to halt.
WakeComplete ==
    \/ op \in EnterOps \cup {"Wakeup_WithReset"} /\ At("RETURN")
    \/ op = "WakeupFromRAM" /\ (At("CALL_APP_ADDR") \/ At("HALT"))

InCoreRetention == op = "Sleep_Enter" /\ retention = "SLEEP_CORE_RETENTION"
VddcLowAtEntry == obs.pre.vddc < VDDC_TRIM_1P10V_BYTE

\* C5: in core-retention sleep with the VDDC trim below the 1.1 V trim at
\* entry, the VDDC trim is the 1.1 V trim at the sleep instruction, the
\* restore is the first statement behind the wait primitive, and from then
\* on (before and during the wake-init) the VDDC trim is its entry value;
\* with the VDDC trim at or above 1.1 V at entry it is never written and
\* keeps its entry value.
C5_VddcRaisedAndRestored ==
    InCoreRetention =>
        /\ VddcLowAtEntry /\ At("WFI") => reg.VDDC_VTRIM = VDDC_TRIM_1P10V_BYTE
        /\ Executed("WFI") /\ PostWfi # << >> => PostWfi[1] = S("IF_RESTORE_TRIM")
        /\ Executed("IF_RESTORE_TRIM") => reg.VDDC_VTRIM = obs.pre.vddc
        /\ ~VddcLowAtEntry => obs.vddc_writes = 0 /\ reg.VDDC_VTRIM = obs.pre.vddc

\* The wake-init starts after a power collapse in a cycle entered with a low
\* VDDC trim, which has been raised and restored.
C5_Witness ==
    /\ InCoreRetention /\ VddcLowAtEntry /\ obs.wfi = "collapsed"
    /\ Executed("IF_RESTORE_TRIM") /\ At("WATCHDOG_REFRESH")
    /\ obs.vddc_writes = 2 /\ reg.VDDC_VTRIM = obs.pre.vddc

\* C6 (as stated): when a core-retention sleep/wake cycle returns, VCC_CTRL
\* equals the value it held at entry to that cycle, for every combination of
\* the entry trims of VDDC and VCC.
C6_VccCtrlPreserved ==
    InCoreRetention /\ At("RETURN") => reg.VCC_CTRL = obs.pre.vcc

(***************************************************************************)
(* Properties of memory-retention sleep.                                   *)
(***************************************************************************)
InMemoryRetention == op = "Sleep_Enter" /\ retention = "SLEEP_MEM_RETENTION"
\* The CRC-32 the engine yields for the first seven words of a block.
BlockCrc(b) ==
    Sys_CRC_GetFinalValue(CrcLoop(<<CRC_32_INIT_HALF, CRC_32_INIT_HALF>>, b, 1, CRC_WORDS))

\* C7: in memory-retention sleep, when the power-mode-select register is
\* written (just before the write and at the sleep instruction behind it)
\* the wake configuration block holds eight words: the stack pointer, the
\* vector table base and the wake entry address, four zero words, and the
\* CRC-32 of these seven words as stored; the wake-address register
\* designates the block and GP_DATA holds the pointer to the configuration.
C7_WakeBlockAtModeWrite ==
    InMemoryRetention /\ (At("PWR_MODES_CTRL_WRITE") \/ At("WFI")) =>
        /\ reg.WAKEUP_ADDR = app_ptr
        /\ reg.GP_DATA = "p_sleep_mode_cfg"
        /\ LET b == ram.mem[app_ptr]
           IN  /\ Len(b) = WAKEUP_BLOCK_WORDS
               /\ b[1] = stack /\ b[2] = reg.VTOR /\ b[3] = WakeupFromRAM_addr
               /\ \A i \in 4..CRC_WORDS : b[i] = Zero32
               /\ b[WAKEUP_BLOCK_WORDS] = BlockCrc(b)

\* Memory-retention sleep is at its sleep instruction with a block the boot
\* ROM accepts, written over RAM that held other data.
C7_Witness ==
    /\ InMemoryRetention /\ At("WFI") /\ WakeBlockValid
    /\ reg.PWR_MODES_CTRL = "PWR_SLEEP_MODE" /\ ram.mem[app_ptr] \notin Garbage

(***************************************************************************)
(* Sleep and standby of a device with the BLE baseband, for every content  *)
(* of the RF banks and of the baseband block.  The baseband may have been  *)
(* put to sleep (sleep bits of DEEPSLCNTL set) before the call.            *)
(***************************************************************************)
RegValues == {1, 2}
SleepBits == {"DEEP_SLEEP_ON", "OSC_SLEEP_EN", "RADIO_SLEEP_EN"}
BleCfgSet ==
    { c \in CfgSet : /\ c.ble_present /\ ~c.app_gpio_config /\ c.app_addr
                     /\ c.boot_cfg = "BOOT_CUSTOM" }

InitBle ==
    /\ cfg \in BleCfgSet
    /\ op = "idle"
    /\ retention = "none"
    /\ todo = << >>
    /\ log = << >>
    /\ \E rf \in [{"0", "1"} -> [1..BankWords -> RegValues]],
          bb \in [1..BankWords -> RegValues],
          bank \in {"0", "1"}, deepslcntl \in {{}, SleepBits}, vtor \in VTORs :
          reg = [InitReg(TRUE, 0, LowVcc, vtor) EXCEPT
                    !.RF = rf, !.BB = bb, !.RF_BANK = bank,
                    !.BB_DEEPSLCNTL = deepslcntl]
    /\ \E g \in Garbage : ram = InitRam(g)
    /\ nvr \in NvrSet
    /\ obs = InitObs

NextBle ==
    \/ Sys_PowerModes_Sleep_Init \/ Sys_PowerModes_Standby_Init
    \/ (\E retention_type \in Sleep_Retention_t :
           Sys_PowerModes_Sleep_Enter(retention_type))
    \/ Sys_PowerModes_Standby_Enter \/ Sys_PowerModes_Wakeup_WithReset
    \/ ENABLE_IRQ \/ DISABLE_IRQ \/ ISB \/ NVIC_ENABLE \/ WATCHDOG_REFRESH \/ SYS_DELAY
    \/ ISR_Run
    \/ RCOSC_3MHZ_ENABLE \/ SYSCLK_SELECT \/ VDDRF_ENABLE \/ WAIT_VDDRF_READY
    \/ VDDPA_CONNECT_VDDRF \/ RF_ENABLE \/ XTAL_START \/ XTAL_PRESCALER_WRITE
    \/ WAIT_CLK_DIG_READY \/ DIVIDER_CONFIG
    \/ IF_RF_ACCESS_ENABLE \/ XTAL_DISABLE \/ RF_ACCESS_DISABLE \/ RF_POWER_DISABLE
    \/ VDDPA_DISABLE \/ VDDRF_DISABLE \/ PADS_RETENTION_ENABLE \/ STANDBY_VTRIM_WRITE
    \/ VDDRET_CTRL_WRITE \/ BOOT_GP_DATA_WRITE \/ PWR_MODES_CTRL_WRITE
    \/ IF_VDDC_BELOW_1P10V \/ IF_RESTORE_TRIM
    \/ APP_PTR_WRITE_0_TO_6 \/ CRC_CONFIG \/ CRC_32_INIT \/ CRC_ADD_WORDS
    \/ APP_PTR_WRITE_7_CRC \/ WAKEUP_ADDR_WRITE \/ GP_DATA_WRITE
    \/ CLK_DET_ENABLE \/ WAIT_CLOCK_PRESENT \/ CLK_DET_CLEAR_RESET_IGNORE
    \/ PADS_RETENTION_DISABLE \/ CLEAR_RESET_FLAGS
    \/ IF_VDDTRET_ENABLE \/ BBIF_CTRL_DEEP_SLEEP \/ BB_WAKEUP_SET \/ WAIT_BB_MASTER_CLK
    \/ BB_WAKEUP_CLEAR \/ WAKEUP_BB_TIMER_CLEAR \/ WAKEUP_IRQ_SET_PENDING
    \/ RF_BANK_SELECT \/ DMA_START \/ WAIT_DMA_COMPLETE \/ DMA_STOP \/ HW_DMA_Transfer
    \/ WAIT_BB_LOW_POWER_CLK \/ BB_IMAGE_DEEPSLCNTL \/ WAIT_BB_OSC_DISABLED
    \/ HW_ClockPresent \/ HW_VDDRF_Ready \/ HW_ClkDigReady
    \/ HW_BB_LowPowerClk \/ HW_BB_OscDisabled \/ HW_BB_MasterClk
    \/ WFI_Immediate \/ WFI_Resume \/ WFI_Reset
    \/ LOAD_CFG_FROM_GP_DATA \/ CALL_APP_ADDR \/ RETURN

SpecBle == InitBle /\ [][NextBle]_vars

(***************************************************************************)
(* Memory-retention sleep on the custom boot path, where the wake handler  *)
(* runs from RAM.  The processor keeps executing: a statement that can run *)
(* does run.                                                               *)
(***************************************************************************)
MemCfgSet ==
    { c \in CfgSet : ~c.ble_present /\ ~c.vddt_ret /\ c.boot_cfg = "BOOT_CUSTOM" }

InitMem == InitFrom(MemCfgSet, BOOLEAN, {0}, {LowVcc}, Garbage, NvrSet)

NextMem ==
    \/ Sys_PowerModes_Sleep_Init
    \/ Sys_PowerModes_Sleep_Enter("SLEEP_MEM_RETENTION")
    \/ ENABLE_IRQ \/ DISABLE_IRQ \/ ISB \/ NVIC_ENABLE \/ WATCHDOG_REFRESH \/ ISR_Run
    \/ RCOSC_3MHZ_ENABLE \/ SYSCLK_SELECT \/ VDDRF_ENABLE \/ WAIT_VDDRF_READY
    \/ VDDPA_CONNECT_VDDRF \/ RF_ENABLE \/ XTAL_START \/ XTAL_PRESCALER_WRITE
    \/ WAIT_CLK_DIG_READY \/ DIVIDER_CONFIG
    \/ IF_RF_ACCESS_ENABLE \/ XTAL_DISABLE \/ RF_ACCESS_DISABLE \/ RF_POWER_DISABLE
    \/ VDDPA_DISABLE \/ VDDRF_DISABLE \/ PADS_RETENTION_ENABLE
    \/ VDDRET_CTRL_WRITE \/ BOOT_GP_DATA_WRITE \/ PWR_MODES_CTRL_WRITE
    \/ APP_PTR_WRITE_0_TO_6 \/ CRC_CONFIG \/ CRC_32_INIT \/ CRC_ADD_WORDS
    \/ APP_PTR_WRITE_7_CRC \/ WAKEUP_ADDR_WRITE \/ GP_DATA_WRITE
    \/ CLK_DET_ENABLE \/ WAIT_CLOCK_PRESENT \/ CLK_DET_CLEAR_RESET_IGNORE
    \/ APP_GPIO_CONFIG \/ PADS_RETENTION_DISABLE \/ CLEAR_RESET_FLAGS
    \/ HW_ClockPresent \/ HW_VDDRF_Ready \/ HW_ClkDigReady
    \/ WFI_Immediate \/ WFI_Reset
    \/ LOAD_CFG_FROM_GP_DATA \/ CALL_APP_ADDR \/ HALT \/ RETURN

SpecMem == InitMem /\ [][NextMem]_vars /\ WF_vars(NextMem)

(***************************************************************************)
(* Properties of the memory-retention wake handler.                        *)
(***************************************************************************)
InWakeHandler == op = "WakeupFromRAM"
\* The common wake sequence as the handler runs it.
CommonWakeSequence ==
    Sleep_WakeupInit_Body(cfg)
    \o (IF cfg.ble_present /\ reg.VDDRET_CTRL.VDDTRET THEN BBTimerWakeup_Body ELSE << >>)
BleLines == IF cfg.ble_present THEN << SA("NVIC_ENABLE", "BLE") >> ELSE << >>
HandlerStart ==
    << S("DISABLE_IRQ"), S("LOAD_CFG_FROM_GP_DATA"), S("WATCHDOG_REFRESH"),
       SA("NVIC_ENABLE", "WAKEUP_IRQn") >>
HandlerEnd ==
    << S("ENABLE_IRQ"), S("ISB") >>
    \o (IF cfg.app_addr THEN << S("CALL_APP_ADDR") >> ELSE << S("WATCHDOG_REFRESH") >>)

\* C8 (as amended): the memory-retention wake handler disables interrupts,
\* recovers the configuration pointer from GP_DATA, refreshes the watchdog,
\* enables the wake IRQ, runs the common wake sequence, and only AFTER it
\* enables the BLE interrupt lines (when ble_present); then it re-enables
\* global interrupts and calls the application return address if it is set.
C8_HandlerOrder ==
    /\ InWakeHandler =>
          IsPrefix(log, HandlerStart \o CommonWakeSequence \o BleLines \o HandlerEnd)
    /\ InWakeHandler /\ At("CALL_APP_ADDR") =>
          /\ cfg.app_addr /\ ~reg.PRIMASK
          /\ log \o << S("CALL_APP_ADDR") >> =
                HandlerStart \o CommonWakeSequence \o BleLines \o HandlerEnd

\* The handler is about to call the application with the BLE lines enabled.
C8_Witness ==
    /\ InWakeHandler /\ At("CALL_APP_ADDR") /\ cfg.ble_present
    /\ BLE_IRQS \subseteq reg.NVIC_EN

\* C8 (as stated): the handler disables interrupts, recovers the
\* configuration pointer, refreshes the watchdog, enables the wake IRQ and
\* (when ble_present) the BLE interrupt lines, then runs the common wake
\* sequence, re-enables global interrupts and calls the application.
C8_AsStated ==
    InWakeHandler =>
        IsPrefix(log, HandlerStart \o BleLines \o CommonWakeSequence \o HandlerEnd)

\* The handler has reached its halt loop.
Halted == InWakeHandler /\ At("HALT")

\* C9: when the memory-retention wake handler finishes and app_addr is not
\* set, control is never transferred to application code, the handler stays
\* halted forever, and the watchdog is refreshed again and again during the
\* halt (every turn of the halt loop is followed by another refresh).
C9_HaltFeedsWatchdog ==
    /\ [](InWakeHandler /\ ~cfg.app_addr => ~obs.app_called /\ ~At("CALL_APP_ADDR"))
    /\ [](Halted => [](Halted /\ ~cfg.app_addr))
    /\ []<>(Halted => obs.wdg_fed)

(***************************************************************************)
(* Properties of the wake-init routines.                                   *)
(***************************************************************************)
\* A wake-init routine has been entered: behind the wait primitive of an
\* entry function, behind the wake IRQ enable of the RAM wake handler, or
\* from the first statement of the reset-based wake.
InWakeInit ==
    \/ BehindWfi
    \/ InWakeHandler /\ Executed("NVIC_ENABLE")
    \/ op = "Wakeup_WithReset"
WakeInitStart ==
    CASE op \in EnterOps -> Last("WFI") + 1
      [] InWakeHandler -> First("NVIC_ENABLE") + 1
      [] OTHER -> 1
\* The kinds of the statements the wake-init has executed so far; the restore
\* of the trims that core retention runs first is not part of the routine.
WakeInitTrace ==
    LET t == Kinds(SubSeq(log, WakeInitStart, Len(log)))
    IN  IF t # << >> /\ t[1] = "IF_RESTORE_TRIM" THEN Tail(t) ELSE t
WakeInitOrder ==
    << "WATCHDOG_REFRESH", "CLK_DET_ENABLE", "WAIT_CLOCK_PRESENT",
       "CLK_DET_CLEAR_RESET_IGNORE" >>
    \o (IF cfg.app_gpio_config THEN << "APP_GPIO_CONFIG" >> ELSE << >>)
    \o << "PADS_RETENTION_DISABLE", "CLEAR_RESET_FLAGS" >>
    \o (IF XtalBoot(cfg)
        THEN << "VDDRF_ENABLE" >>
        ELSE << "RCOSC_TRIM_AND_FSEL" >>)
Agree(a, b) == \A i \in 1..(IF Len(a) < Len(b) THEN Len(a) ELSE Len(b)) : a[i] = b[i]

\* C10: every wake-init routine (sleep, standby, reset-based) first refreshes
\* the watchdog, then enables the clock detector, observes the
\* clock-present flag set and only then clears the reset-ignore bit, then
\* runs the GPIO callback if one is supplied, then disables pad retention,
\* then clears the reset flags, and then starts the clock re-initialisation,
\* which completes.
C10_WakeInitOrder ==
    InWakeInit =>
        /\ Agree(WakeInitTrace, WakeInitOrder)
        /\ At("CLK_DET_CLEAR_RESET_IGNORE") =>
              reg.CLK_DET.ENABLE /\ reg.CLK_DET.CLOCK_PRESENT
        /\ Len(WakeInitTrace) >= Len(WakeInitOrder) => ~reg.PADS_RETENTION
        /\ At("RETURN") \/ At("CALL_APP_ADDR") \/ At("HALT") =>
              \E i \in DOMAIN WakeInitTrace : WakeInitTrace[i] = "DIVIDER_CONFIG"

\* The reset-based wake has run its whole sequence, GPIO callback included.
C10_Witness ==
    /\ op = "Wakeup_WithReset" /\ At("RETURN") /\ cfg.app_gpio_config
    /\ Len(WakeInitTrace) > Len(WakeInitOrder)

(***************************************************************************)
(* Properties of the RF and baseband register images.                      *)
(***************************************************************************)
\* A wake-init that restores the register images has run to its end.
RestoreComplete ==
    /\ cfg.ble_present
    /\ \/ op \in {"Sleep_Enter", "Standby_Enter"} /\ At("RETURN")
       \/ InWakeHandler /\ At("CALL_APP_ADDR")

\* C11 (as amended): with ble_present, after Sleep_Enter or Standby_Enter and
\* their wake-init (the RAM wake handler included) every register of both RF
\* banks and every register of the baseband block holds the value it held
\* when the snapshot was taken, EXCEPT the deep-sleep control word of the
\* baseband, which comes back with its three sleep bits clear whatever it
\* held, and the bank select, which is left at bank 0.  At the sleep
\* instruction the three images hold the registers' contents.  The
\* reset-based wake restores nothing.
C11_RestoreInvertsSnapshot ==
    /\ RestoreComplete =>
          /\ reg.RF = obs.pre.rf
          /\ reg.BB = obs.pre.bb
          /\ reg.BB_DEEPSLCNTL = {}
          /\ reg.RF_BANK = "0"
    /\ cfg.ble_present /\ op \in {"Sleep_Enter", "Standby_Enter"} /\ At("WFI") =>
          /\ ram.rf_registers_image_1 = obs.pre.rf["0"]
          /\ ram.rf_registers_image_2 = obs.pre.rf["1"]
          /\ ram.bb_registers_image = obs.pre.bb
          /\ ram.bb_image_DEEPSLCNTL = {}
    /\ op = "Wakeup_WithReset" => ~Executed("DMA_START")

\* The registers were lost in the power mode and are back, the two banks
\* holding different contents and the baseband having been asleep.
C11_Witness ==
    /\ RestoreComplete /\ obs.wfi = "collapsed"
    /\ obs.pre.rf["0"] # obs.pre.rf["1"]
    /\ obs.pre.deepslcntl = SleepBits
    /\ reg.RF = obs.pre.rf

\* C11 (as stated): after Enter followed by wake-init every register of both
\* RF banks and every register of the baseband block holds exactly the value
\* it held when the snapshot was taken.
C11_AsStated ==
    RestoreComplete =>
        /\ reg.RF = obs.pre.rf
        /\ reg.BB = obs.pre.bb
        /\ reg.BB_DEEPSLCNTL = obs.pre.deepslcntl

(***************************************************************************)
(* The trim library (source/trim.c).  A 32-bit word of the calibration     *)
(* region is <<high half, low half>>; an error mask is the set of the      *)
(* names of its bits (trim.h:84-165: one bit per name).                    *)
(***************************************************************************)
ERROR_NO_ERROR == {}
MAX_16_BIT == 65535
MAX_8_BIT == 255
CRC_CCITT_POLY == 4129
RegionWords == 2

\* One bit through the CRC-CCITT shift register, most significant bit first.
CcittBit(value, bit) ==
    IF ((value \div (HALF \div 2)) + bit) % 2 = 1
    THEN Xor((value * 2) % HALF, CRC_CCITT_POLY, 16)
    ELSE (value * 2) % HALF

RECURSIVE CcittBits(_, _, _, _)
CcittBits(value, data, hi, lo) ==
    IF hi = lo THEN CcittBit(value, Bit32(data, hi))
    ELSE LET mid == (hi + lo + 1) \div 2
         IN  CHOOSE r \in { CcittBits(v, data, mid - 1, lo) :
                                v \in {CcittBits(value, data, hi, mid)} } : TRUE

CcittWord(value, data, n) ==
    IF n = 0 THEN value ELSE CcittBits(value, data, n - 1, 0)

RECURSIVE CcittWords(_, _, _, _)
CcittWords(value, words, i, n) ==
    IF i > n THEN value
    ELSE IF i = n THEN CcittWord(value, words[i], WORD_BITS)
    ELSE LET mid == (i + n) \div 2
         IN  CHOOSE r \in { CcittWords(v, words, mid + 1, n) :
                                v \in {CcittWords(value, words, i, mid)} } : TRUE

CcittLoop(value, words, i, n) ==
    CHOOSE r \in { CcittWords(v, w, i, n) : v \in {value}, w \in {words} } : TRUE

\* CRC->FINAL after the words of the region were added, in either mode.
RegionCrcCcitt(words) == <<0, CcittLoop(MAX_16_BIT, words, 1, Len(words))>>
RegionCrc32(words) ==
    Sys_CRC_GetFinalValue(
        CrcLoop(<<CRC_32_INIT_HALF, CRC_32_INIT_HALF>>, words, 1, Len(words)))

\* A check that always uses the CRC-32 engine.
Sys_Trim_CheckCRC_Always32(trim_region) ==
    IF trim_region.CHECKSUM = RegionCrc32(trim_region.words)
    THEN ERROR_NO_ERROR ELSE {"ERROR_INVALID_CRC"}
\* Sys_Trim_CheckCRC(trim_region), trim_region not null
Sys_Trim_CheckCRC(trim_region) ==
    LET final == IF trim_region.CHECKSUM[1] = 0 /\ trim_region.CHECKSUM[2] <= MAX_16_BIT
                 THEN RegionCrcCcitt(trim_region.words)
                 ELSE RegionCrc32(trim_region.words)
    IN  IF trim_region.CHECKSUM = final THEN ERROR_NO_ERROR ELSE {"ERROR_INVALID_CRC"}

(***************************************************************************)
(* Check of the checksum of a region that was written with one of the two  *)
(* engines and in which words may have been altered since.                 *)
(***************************************************************************)
WordValues == { <<0, 0>>, <<75, 18>>, <<65535, 65535>> }
Engines == {"CRC_CCITT", "CRC_32"}
WrittenWith(engine, words) ==
    [ words |-> words, engine |-> engine,
      CHECKSUM |-> IF engine = "CRC_CCITT" THEN RegionCrcCcitt(words)
                                           ELSE RegionCrc32(words) ]
\* The regions whose checksum the heuristic of the check attributes to the
\* engine that wrote it.
CrcRegions ==
    { r \in { WrittenWith(e, w) : e \in Engines, w \in [1..RegionWords -> WordValues] } :
         (r.engine = "CRC_CCITT") = (r.CHECKSUM[1] = 0) }
TrimCfg == CHOOSE c \in CoreCfgSet : TRUE

InitCrc == InitFrom({TrimCfg}, {FALSE}, {0}, {LowVcc}, Garbage, CrcRegions)

BitFlips == { <<2 ^ k, 0>> : k \in 0..15 } \cup { <<0, 2 ^ k>> : k \in 0..15 }
\* One bit of one covered word changes.
Region_FlipBit ==
    /\ obs.res.fn = "none"
    /\ \E i \in 1..RegionWords, flip \in BitFlips :
          /\ nvr' = [nvr EXCEPT !.words[i] = Xor32(@, flip)]
          /\ obs' = [obs EXCEPT !.res = [fn |-> "none", altered |-> "bit"]]
    /\ "altered" \notin DOMAIN obs.res
    /\ UNCHANGED <<cfg, op, retention, todo, log, reg, ram>>
\* The generator polynomial of the engine is added to the covered words.
Region_AddGenerator ==
    /\ obs.res.fn = "none"
    /\ "altered" \notin DOMAIN obs.res
    /\ nvr' = IF nvr.engine = "CRC_CCITT"
              THEN [nvr EXCEPT !.words[RegionWords] = Xor32(@, <<1, CRC_CCITT_POLY>>)]
              ELSE [nvr EXCEPT !.words[RegionWords - 1] = Xor32(@, <<0, 1>>),
                               !.words[RegionWords] =
                                   Xor32(@, <<CRC_32_POLY_HI, CRC_32_POLY_LO>>)]
    /\ obs' = [obs EXCEPT !.res = [fn |-> "none", altered |-> "generator"]]
    /\ UNCHANGED <<cfg, op, retention, todo, log, reg, ram>>
\* The application checks the region.
Call_Sys_Trim_CheckCRC ==
    /\ op = "idle" /\ obs.res.fn = "none"
    /\ obs' = [obs EXCEPT !.res = [fn |-> "Sys_Trim_CheckCRC",
                                   altered |-> IF "altered" \in DOMAIN obs.res
                                               THEN obs.res.altered ELSE "no",
                                   ret |-> Sys_Trim_CheckCRC(nvr)]]
    /\ UNCHANGED <<cfg, op, retention, todo, log, reg, ram, nvr>>

NextCrc == Region_FlipBit \/ Region_AddGenerator \/ Call_Sys_Trim_CheckCRC
SpecCrc == InitCrc /\ [][NextCrc]_vars

Checked == obs.res.fn = "Sys_Trim_CheckCRC"

\* C12 (as amended): Sys_Trim_CheckCRC returns NoError if and only if the CRC
\* accumulated over the covered words, with the CCITT engine when the stored
\* checksum is at most 0xFFFF and the CRC-32 engine otherwise, equals the
\* stored checksum, and InvalidCRC otherwise; for a record written with that
\* engine it succeeds when no covered word was altered and fails when one
\* bit of a covered word was altered; an alteration that adds a multiple of
\* the generator polynomial is NOT detected.
C12_CheckCrc ==
    Checked =>
        /\ obs.res.ret \in {ERROR_NO_ERROR, {"ERROR_INVALID_CRC"}}
        /\ (obs.res.ret = ERROR_NO_ERROR) <=>
              (nvr.CHECKSUM = IF nvr.CHECKSUM[1] = 0 THEN RegionCrcCcitt(nvr.words)
                                                     ELSE RegionCrc32(nvr.words))
        /\ obs.res.altered = "no" => obs.res.ret = ERROR_NO_ERROR
        /\ obs.res.altered = "bit" => obs.res.ret = {"ERROR_INVALID_CRC"}
        /\ obs.res.altered = "generator" => obs.res.ret = ERROR_NO_ERROR

\* A region written with the CRC-32 engine lost one bit and is rejected.
C12_Witness ==
    /\ Checked /\ nvr.engine = "CRC_32" /\ obs.res.altered = "bit"
    /\ obs.res.ret = {"ERROR_INVALID_CRC"}

\* C12 (as stated): for a record written with the engine the check selects,
\* the check succeeds exactly when no covered word was altered, and returns
\* InvalidCRC otherwise.
C12_AsStated ==
    Checked => ((obs.res.ret = ERROR_NO_ERROR) <=> (obs.res.altered = "no"))

(***************************************************************************)
(* Sys_Trim_GetTrim (trim.c:449-557).  A record is <<stored_target,        *)
(* stored_trim>>, the two halves of its word.                              *)
(***************************************************************************)
MIN_32_BIT == Zero32
MAX_32_BIT == <<MAX_16_BIT, MAX_16_BIT>>
BYTE == 256
MaxRecords == 2

\* One iteration of the loop of Sys_Trim_GetTrim: found means the break.
GetTrimRecord(word, trim_target) ==
    LET stored_target == word[1]
        stored_trim   == word[2]
        invalid == word = MIN_32_BIT \/ word = MAX_32_BIT
    IN  IF stored_target > MAX_8_BIT /\ ~invalid
        THEN IF trim_target = stored_target
             THEN [found |-> TRUE, val |-> stored_trim]
             ELSE IF trim_target = stored_target % BYTE
             THEN [found |-> TRUE, val |-> stored_trim % BYTE]
             ELSE IF trim_target = stored_target \div BYTE
             THEN [found |-> TRUE, val |-> stored_trim \div BYTE]
             ELSE [found |-> FALSE, val |-> MAX_16_BIT]
        ELSE IF stored_trim < BYTE /\ ~invalid
        THEN IF trim_target = stored_target
             THEN [found |-> TRUE, val |-> stored_trim % BYTE]
             ELSE [found |-> FALSE, val |-> MAX_16_BIT]
        ELSE IF trim_target = stored_target % BYTE
             THEN [found |-> TRUE, val |-> stored_trim]
             ELSE [found |-> FALSE, val |-> MAX_16_BIT]

\* The iterations i..record_length of the loop, record_length >= i.
RECURSIVE GetTrimFrom(_, _, _, _)
GetTrimFrom(addr, trim_target, record_length, i) ==
    LET r == GetTrimRecord(addr[i], trim_target)
    IN  IF r.found THEN [ret |-> ERROR_NO_ERROR, trim_val |-> r.val]
        ELSE IF i = record_length
        THEN [ret |-> {"ERROR_NO_TRIM_FOUND"}, trim_val |-> MAX_16_BIT]
        ELSE GetTrimFrom(addr, trim_target, record_length, i + 1)

\* Sys_Trim_GetTrim(addr, trim_target, record_length, trim_val), no null
\* pointer.  With record_length 0 the loop does not run and the function
\* returns its uninitialised ret_val and leaves *trim_val as it was.
Sys_Trim_GetTrim(addr, trim_target, record_length, uninit_ret, old_val) ==
    IF record_length = 0
    THEN [ret |-> uninit_ret, trim_val |-> old_val]
    ELSE GetTrimFrom(addr, trim_target, record_length, 1)

\* Values an uninitialised ret_val may hold.
UninitMasks == { ERROR_NO_ERROR, {"ERROR_NO_TRIM_FOUND"}, {"ERROR_INVALID_TRIM"},
                 {"ERROR_NULL", "ERROR_INVALID_CRC"} }

(***************************************************************************)
(* Lookups in every table of up to MaxRecords records.                     *)
(***************************************************************************)
TableWords == { MIN_32_BIT, MAX_32_BIT, <<115, 20>>, <<110, 4660>>,
                <<20595, 2570>>, <<3000, 77>> }
TrimTargets == {0, 255, 115, 110, 80, 3000, 7}
Tables == UNION { [1..n -> TableWords] : n \in 0..MaxRecords }
TableRegions == { [table |-> t] : t \in Tables }

InitGetTrim == InitFrom({TrimCfg}, {FALSE}, {0}, {LowVcc}, Garbage, TableRegions)

Call_Sys_Trim_GetTrim ==
    /\ op = "idle" /\ obs.res.fn = "none"
    /\ \E trim_target \in TrimTargets, uninit_ret \in UninitMasks :
          LET r == Sys_Trim_GetTrim(nvr.table, trim_target, Len(nvr.table),
                                    uninit_ret, 0)
          IN  obs' = [obs EXCEPT !.res = [fn |-> "Sys_Trim_GetTrim",
                                          trim_target |-> trim_target,
                                          ret |-> r.ret, trim_val |-> r.trim_val]]
    /\ UNCHANGED <<cfg, op, retention, todo, log, reg, ram, nvr>>

NextGetTrim == Call_Sys_Trim_GetTrim
SpecGetTrim == InitGetTrim /\ [][NextGetTrim]_vars

\* What the table holds for a target.
NonSentinel(word) == word # MIN_32_BIT /\ word # MAX_32_BIT
Matches(word, t) ==
    /\ NonSentinel(word)
    /\ \/ t = word[1]
       \/ word[1] > MAX_8_BIT /\ (t = word[1] % BYTE \/ t = word[1] \div BYTE)
TrimFor(word, t) ==
    IF t = word[1] THEN word[2]
    ELSE IF t = word[1] % BYTE THEN word[2] % BYTE ELSE word[2] \div BYTE
Matching(t) == { i \in DOMAIN nvr.table : Matches(nvr.table[i], t) }
Looked == obs.res.fn = "Sys_Trim_GetTrim"

\* C13: Sys_Trim_GetTrim, for every table, record count and target: with
\* exactly one non-sentinel record matching the target it returns that
\* record's trim value with NoError; with no non-sentinel record matching it
\* returns NoTrimFound; in particular for an empty table and for a table of
\* sentinels only, every target, 0 and 0xFF included, yields NoTrimFound.
C13_GetTrim ==
    Looked =>
        LET t == obs.res.trim_target
        IN  /\ Cardinality(Matching(t)) = 1 =>
                  /\ obs.res.ret = ERROR_NO_ERROR
                  /\ \E i \in Matching(t) : obs.res.trim_val = TrimFor(nvr.table[i], t)
            /\ Matching(t) = {} => obs.res.ret = {"ERROR_NO_TRIM_FOUND"}

(***************************************************************************)
(* Sys_Trim_LoadVDDC (trim.c:750-810).  A VDDC record holds the standby    *)
(* target and the target in the two bytes of stored_target and the two     *)
(* trims in the two bytes of stored_trim.                                  *)
(***************************************************************************)
\* Sys_Trim_LoadVDDC_private(trim_values, target, target_standby) on the
\* registers r: the returned mask and the registers after the call.
Sys_Trim_LoadVDDC_private(trim_values, target, target_standby, r) ==
    LET n == Len(trim_values.vddc)
        g1 == Sys_Trim_GetTrim(trim_values.vddc, target % HALF, n, ERROR_NO_ERROR, 0)
        g2 == Sys_Trim_GetTrim(trim_values.vddc, target_standby % HALF, n, ERROR_NO_ERROR, 0)
        ret_val == (IF g1.ret # ERROR_NO_ERROR THEN {"ERROR_VDDC_INVALID"} ELSE {})
                   \cup (IF g2.ret # ERROR_NO_ERROR THEN {"ERROR_VDDC_STBY_INVALID"} ELSE {})
        r1 == IF "ERROR_VDDC_INVALID" \notin ret_val
              THEN [r EXCEPT !.VDDC_VTRIM = g1.trim_val % BYTE] ELSE r
        r2 == IF "ERROR_VDDC_STBY_INVALID" \notin ret_val
              THEN [r1 EXCEPT !.VDDC_STANDBY = g2.trim_val % BYTE] ELSE r1
    IN  [ret |-> ret_val, reg |-> r2]

VddcWords == { MIN_32_BIT, MAX_32_BIT, <<20595, 2580>>, <<20580, 2837>> }
VddcRegions == { [vddc |-> t] : t \in [1..MaxRecords -> VddcWords] }
VddcTargets == {115, 100, 92, 0, MAX_8_BIT}
VddcStandbyTargets == {80, 70, 0, MAX_8_BIT}
PreTrims == {7, 9}

InitVddc ==
    /\ cfg = TrimCfg
    /\ op = "idle"
    /\ retention = "none"
    /\ todo = << >>
    /\ log = << >>
    /\ \E vtrim \in PreTrims, standby \in PreTrims, vtor \in VTORs :
          reg = [InitReg(FALSE, vtrim, LowVcc, vtor) EXCEPT !.VDDC_STANDBY = standby]
    /\ \E g \in Garbage : ram = InitRam(g)
    /\ nvr \in VddcRegions
    /\ obs = InitObs

Call_Sys_Trim_LoadVDDC ==
    /\ op = "idle" /\ obs.res.fn = "none"
    /\ \E target \in VddcTargets, target_standby \in VddcStandbyTargets :
          LET r == Sys_Trim_LoadVDDC_private(nvr, target, target_standby, reg)
          IN  /\ reg' = r.reg
              /\ obs' = [obs EXCEPT !.res =
                            [fn |-> "Sys_Trim_LoadVDDC", target |-> target,
                             target_standby |-> target_standby, ret |-> r.ret,
                             pre |-> [VDDC_VTRIM |-> reg.VDDC_VTRIM,
                                      VDDC_STANDBY |-> reg.VDDC_STANDBY]]]
    /\ UNCHANGED <<cfg, op, retention, todo, log, ram, nvr>>

NextVddc == Call_Sys_Trim_LoadVDDC
SpecVddc == InitVddc /\ [][NextVddc]_vars

\* The records of the region that hold a target, or a standby target.
VddcWith(t) ==
    { i \in DOMAIN nvr.vddc : NonSentinel(nvr.vddc[i]) /\ nvr.vddc[i][1] % BYTE = t }
VddcStandbyWith(t) ==
    { i \in DOMAIN nvr.vddc : NonSentinel(nvr.vddc[i]) /\ nvr.vddc[i][1] \div BYTE = t }
LoadedVddc == obs.res.fn = "Sys_Trim_LoadVDDC"

\* C14: Sys_Trim_LoadVDDC with a target present in the region and a standby
\* target that is not: the normal-voltage trim register holds the found
\* trim, the standby trim register keeps its pre-call value and the mask is
\* exactly the standby error bit; with only the standby target present, only
\* the standby register is written and only the normal-voltage error bit is
\* returned.
C14_LoadVddcPartial ==
    LoadedVddc =>
        /\ VddcWith(obs.res.target) # {} /\ VddcStandbyWith(obs.res.target_standby) = {} =>
              /\ \E i \in VddcWith(obs.res.target) :
                    reg.VDDC_VTRIM = nvr.vddc[i][2] % BYTE
              /\ reg.VDDC_STANDBY = obs.res.pre.VDDC_STANDBY
              /\ obs.res.ret = {"ERROR_VDDC_STBY_INVALID"}
        /\ VddcWith(obs.res.target) = {} /\ VddcStandbyWith(obs.res.target_standby) # {} =>
              /\ \E i \in VddcStandbyWith(obs.res.target_standby) :
                    reg.VDDC_STANDBY = nvr.vddc[i][2] \div BYTE
              /\ reg.VDDC_VTRIM = obs.res.pre.VDDC_VTRIM
              /\ obs.res.ret = {"ERROR_VDDC_INVALID"}

(***************************************************************************)
(* Sys_Trim_VerifyTrims (trim.c:203-394).  A region holds, next to the     *)
(* words the checksum covers, one table of records per domain; a record is *)
(* the word <<target, trim>>, and a voltage target is the low byte of the  *)
(* target half-word.                                                       *)
(***************************************************************************)
MIN_16_BIT == 0
MIN_8_BIT == 0
VERIFY_RECORDS == 4
RcRecords == 1

\* The test of one field of a record against the two erased values.
IsSentinel(word, field) ==
    CASE field = "target"         -> word[1] \in {MIN_16_BIT, MAX_16_BIT}
      [] field = "target_voltage" -> word[1] % BYTE \in {MIN_8_BIT, MAX_8_BIT}
      [] field = "trim"           -> word[2] \in {MIN_16_BIT, MAX_16_BIT}

\* The domains of the voltage loop in the order of its body, with the field
\* the loop tests and the flag it sets.
VoltageDomains ==
    << [name |-> "bandgap", field |-> "target",         err |-> "ERROR_BG_INVALID"],
       [name |-> "dcdc",    field |-> "target",         err |-> "ERROR_DCDC_INVALID"],
       [name |-> "vddc",    field |-> "target_voltage", err |-> "ERROR_VDDC_INVALID"],
       [name |-> "vddm",    field |-> "target_voltage", err |-> "ERROR_VDDM_INVALID"],
       [name |-> "vddrf",   field |-> "trim",           err |-> "ERROR_VDDRF_INVALID"],
       [name |-> "vddpa",   field |-> "target_voltage", err |-> "ERROR_VDDPA_INVALID"] >>

\* One if (!valid_found[d]) block of the loop body on record i.
VerifyOne(trim_region, d, i, st) ==
    IF d.name \in st.valid_found THEN st
    ELSE IF IsSentinel(trim_region[d.name][i], d.field)
         THEN [st EXCEPT !.ret_val = @ \cup {d.err}]
         ELSE [ret_val |-> st.ret_val \ {d.err},
               valid_found |-> st.valid_found \cup {d.name}]

\* The blocks lo to hi of the body of iteration i, one after the other.
RECURSIVE VerifyBody(_, _, _, _, _)
VerifyBody(trim_region, i, lo, hi, st) ==
    IF lo = hi THEN VerifyOne(trim_region, VoltageDomains[lo], i, st)
    ELSE LET mid == (lo + hi) \div 2
         IN  CHOOSE r \in { VerifyBody(trim_region, i, mid + 1, hi, v) :
                                v \in {VerifyBody(trim_region, i, lo, mid, st)} } : TRUE

\* The iterations lo to hi of the voltage loop, one after the other.
RECURSIVE VerifyVoltages(_, _, _, _)
VerifyVoltages(trim_region, lo, hi, st) ==
    IF lo = hi THEN VerifyBody(trim_region, lo, 1, Len(VoltageDomains), st)
    ELSE LET mid == (lo + hi) \div 2
         IN  CHOOSE r \in { VerifyVoltages(trim_region, mid + 1, hi, v) :
                                v \in {VerifyVoltages(trim_region, lo, mid, st)} } : TRUE

\* The loop over the RC oscillator records: rcosc[i * 2] for i < TRIM_RC_RECORDS.
VerifyRcosc(trim_region) ==
    IF \E i \in 0..(RcRecords - 1) : IsSentinel(trim_region.rcosc[i * 2 + 1], "target")
    THEN {"ERROR_RCOSC_INVALID"} ELSE {}

Sys_Trim_VerifyTrims(trim_region) ==
    LET sixteen(v) == v \in {MIN_16_BIT, MAX_16_BIT}
    IN  CHOOSE r \in {
        volt.ret_val
        \cup (IF IsSentinel(trim_region.vddif[1], "target")
              THEN {"ERROR_VDDIF_INVALID"} ELSE {})
        \cup (IF IsSentinel(trim_region.vddflash[1], "target")
              THEN {"ERROR_VDDFLASH_INVALID"} ELSE {})
        \cup VerifyRcosc(trim_region)
        \cup (IF IsSentinel(trim_region.rcosc32[1], "target")
              THEN {"ERROR_RCOSC32_INVALID"} ELSE {})
        \cup (IF sixteen(trim_region.lsad_trim.hf_offset)
              THEN {"ERROR_LSAD_INVALID"} ELSE {})
        \cup (IF \/ trim_region.lsad_trim.hf_gain = MIN_32_BIT
                 \/ trim_region.lsad_trim.lf_gain = MAX_32_BIT
              THEN {"ERROR_LSAD_INVALID"} ELSE {})
        \cup (IF trim_region.temp_sensor.offset \in {MIN_32_BIT, MAX_32_BIT}
              THEN {"ERROR_TEMPERATURE_INVALID"} ELSE {})
        \cup (IF sixteen(trim_region.thermistor[1].bias)
              THEN {"ERROR_THERMISTOR_INVALID"} ELSE {})
        \cup (IF \E f \in DOMAIN trim_region.measured : sixteen(trim_region.measured[f])
              THEN {"ERROR_MEASURED_INVALID"} ELSE {})
        : volt \in { VerifyVoltages(trim_region, 1, VERIFY_RECORDS,
                                    [ret_val |-> crc, valid_found |-> {}]) :
                     crc \in { IF Sys_Trim_CheckCRC(trim_region) # ERROR_NO_ERROR
                               THEN {"ERROR_INVALID_CRC"} ELSE {} } } } : TRUE

\* Record words: erased both ways, a record with target and trim, a record
\* with a target and a zero trim, a record with a trim and no target.
VerifyWords == { MIN_32_BIT, MAX_32_BIT, <<20595, 2580>>, <<115, 0>>, <<0, 20>> }
RcWords == { MIN_32_BIT, MAX_32_BIT, <<20595, 2580>> }
VoltageNames == { VoltageDomains[k].name : k \in DOMAIN VoltageDomains }
SingleNames == {"vddif", "vddflash", "rcosc32"}
FullTable(n, w) == [i \in 1..n |-> w]
\* A region of which every table is full of the same word.
UniformRegion(w, engine) ==
    [ n \in VoltageNames |-> FullTable(VERIFY_RECORDS, w) ]
    @@ [ n \in SingleNames |-> FullTable(1, w) ]
    @@ [ rcosc       |-> FullTable(RcRecords * 4, w),
         bandgap_current |-> FullTable(VERIFY_RECORDS, w),
         lsad_trim   |-> [hf_offset |-> w[1], hf_gain |-> w, lf_gain |-> w],
         temp_sensor |-> [offset |-> w],
         thermistor  |-> << [bias |-> w[1]] >>,
         measured    |-> [temp_sensor_30C |-> w[1], bandgap_vref_0_75V |-> w[1],
                          lsad_vref_1_0V_internal |-> w[1], wedac_600mV |-> w[1]] ]
    @@ WrittenWith(engine, FullTable(RegionWords, w))
\* The regions drawn: a written region with its checksum, or an erased region
\* with a checksum that does not fit, in which the table of one domain is
\* replaced by any table.
VerifyRegions ==
    LET base == { UniformRegion(<<20595, 2580>>, "CRC_32"),
                  [UniformRegion(MAX_32_BIT, "CRC_32") EXCEPT !.CHECKSUM = <<1, 1>>] }
    IN  UNION { { [b EXCEPT ![n] = t] : n \in VoltageNames,
                                        t \in [1..VERIFY_RECORDS -> VerifyWords] }
                \cup { [b EXCEPT ![n] = t] : n \in SingleNames,
                                             t \in [1..1 -> VerifyWords] }
                \cup { [b EXCEPT !.rcosc = t] :
                          t \in [1..(RcRecords * 4) -> RcWords] }
                \cup { [b EXCEPT !.lsad_trim = [hf_offset |-> 7, hf_gain |-> g, lf_gain |-> l]] :
                          g \in {MIN_32_BIT, MAX_32_BIT, <<1, 2>>},
                          l \in {MIN_32_BIT, MAX_32_BIT, <<1, 2>>} }
              : b \in base }

InitVerify == InitFrom({TrimCfg}, {FALSE}, {0}, {LowVcc}, Garbage, VerifyRegions)

Call_Sys_Trim_VerifyTrims ==
    /\ op = "idle" /\ obs.res.fn = "none"
    /\ obs' = [obs EXCEPT !.res = [fn |-> "Sys_Trim_VerifyTrims",
                                   ret |-> Sys_Trim_VerifyTrims(nvr)]]
    /\ UNCHANGED <<cfg, op, retention, todo, log, reg, ram, nvr>>

NextVerify == Call_Sys_Trim_VerifyTrims
SpecVerify == InitVerify /\ [][NextVerify]_vars

\* The tables with the redundant records of a domain and the flag of the
\* domain; a voltage target is the low byte of the target half-word.
DomainFlags ==
    [ bandgap  |-> "ERROR_BG_INVALID",       dcdc    |-> "ERROR_DCDC_INVALID",
      vddc     |-> "ERROR_VDDC_INVALID",     vddm    |-> "ERROR_VDDM_INVALID",
      vddrf    |-> "ERROR_VDDRF_INVALID",    vddpa   |-> "ERROR_VDDPA_INVALID",
      rcosc    |-> "ERROR_RCOSC_INVALID",    vddif   |-> "ERROR_VDDIF_INVALID",
      vddflash |-> "ERROR_VDDFLASH_INVALID", rcosc32 |-> "ERROR_RCOSC32_INVALID" ]
HasTarget(n, word) ==
    IF n \in {"vddc", "vddm", "vddpa"} THEN ~IsSentinel(word, "target_voltage")
                                      ELSE ~IsSentinel(word, "target")
Verified == obs.res.fn = "Sys_Trim_VerifyTrims"

\* C15: Sys_Trim_VerifyTrims sets the flag of a domain if and only if no
\* record of the domain's table has a non-sentinel target, whatever the
\* other tables hold, and sets InvalidCRC if and only if Sys_Trim_CheckCRC
\* fails.
C15_VerifyTrims ==
    Verified =>
        /\ \A n \in DOMAIN DomainFlags :
              (DomainFlags[n] \in obs.res.ret)
                 <=> ~(\E i \in DOMAIN nvr[n] : HasTarget(n, nvr[n][i]))
        /\ ("ERROR_INVALID_CRC" \in obs.res.ret)
              <=> (Sys_Trim_CheckCRC(nvr) # ERROR_NO_ERROR)

(***************************************************************************)
(* Sys_Trim_LoadTrims and the per-domain loaders (trim.c:53-117, 584-1082, *)
(* trim_vddif.c).  A loader looks its targets up in the table of its       *)
(* domain and writes the trim register of the domain; the slope records of *)
(* the bandgap are the table bandgap_current.                              *)
(***************************************************************************)
NULL_POINTER == [null |-> TRUE]

RECURSIVE Or(_, _, _)
Or(a, b, n) ==
    IF n = 0 THEN 0
    ELSE IF n = 1 THEN (IF (a % 2) + (b % 2) > 0 THEN 1 ELSE 0)
    ELSE LET h == n \div 2
             m == 2 ^ h
         IN  Or(a % m, b % m, h) + (m * Or(a \div m, b \div m, n - h))

\* The lookup of a loader: Sys_Trim_GetTrim over the whole table.
Lookup(table, target) ==
    Sys_Trim_GetTrim(table, target % HALF, Len(table), ERROR_NO_ERROR, 0)

Sys_Trim_LoadBandgap_private(trim_values, target_v, target_i, r) ==
    LET gv == Lookup(trim_values.bandgap, target_v)
        gi == Lookup(trim_values.bandgap_current, target_i)
        ret_val == (IF gv.ret # ERROR_NO_ERROR THEN {"ERROR_BG_V_INVALID"} ELSE {})
                   \cup (IF gi.ret # ERROR_NO_ERROR THEN {"ERROR_BG_I_INVALID"} ELSE {})
        short == trim_values.CHECKSUM[1] = 0 /\ trim_values.CHECKSUM[2] <= MAX_16_BIT
        squeeze(t) == ((t \div BYTE) * BYTE) + ((t \div 4) % BYTE)
        itrim == IF short THEN squeeze(gi.trim_val) ELSE gi.trim_val
        vtrim == IF short THEN squeeze(gv.trim_val) ELSE gv.trim_val
        bg == r.ACS.BG_CTRL
    IN  [ret |-> ret_val,
         reg |-> IF ret_val = ERROR_NO_ERROR
                 THEN [r EXCEPT !.ACS.BG_CTRL = <<itrim, vtrim>>]
                 ELSE IF "ERROR_BG_I_INVALID" \notin ret_val
                 THEN [r EXCEPT !.ACS.BG_CTRL = <<itrim, bg[2]>>]
                 ELSE IF "ERROR_BG_V_INVALID" \notin ret_val
                 THEN [r EXCEPT !.ACS.BG_CTRL = <<bg[1], vtrim>>]
                 ELSE r]

Sys_Trim_LoadVDDM_private(trim_values, target, target_standby, r) ==
    LET g1 == Lookup(trim_values.vddm, target)
        g2 == Lookup(trim_values.vddm, target_standby)
        ret_val == (IF g1.ret # ERROR_NO_ERROR THEN {"ERROR_VDDM_INVALID"} ELSE {})
                   \cup (IF g2.ret # ERROR_NO_ERROR THEN {"ERROR_VDDM_STBY_INVALID"} ELSE {})
        r1 == IF "ERROR_VDDM_INVALID" \notin ret_val
              THEN [r EXCEPT !.ACS.VDDM_VTRIM = g1.trim_val % BYTE] ELSE r
        r2 == IF "ERROR_VDDM_STBY_INVALID" \notin ret_val
              THEN [r1 EXCEPT !.VDDM_STANDBY = g2.trim_val % BYTE] ELSE r1
    IN  [ret |-> ret_val, reg |-> r2]

Sys_Trim_LoadDCDC_private(trim_values, target, r) ==
    LET g == Lookup(trim_values.dcdc, target)
    IN  IF g.ret = ERROR_NO_ERROR
        THEN [ret |-> g.ret,
              reg |-> [r EXCEPT !.VCC_CTRL.VTRIM = IF r.VCC_CTRL.BUCK
                                                   THEN g.trim_val \div BYTE
                                                   ELSE g.trim_val % BYTE]]
        ELSE [ret |-> g.ret \cup {"ERROR_DCDC_INVALID"}, reg |-> r]

Sys_Trim_LoadVDDPA_private(trim_values, target, r) ==
    LET g == Lookup(trim_values.vddpa, target)
    IN  IF g.ret = ERROR_NO_ERROR
        THEN [ret |-> ERROR_NO_ERROR, reg |-> [r EXCEPT !.ACS.VDDPA_VTRIM = g.trim_val % BYTE]]
        ELSE [ret |-> {"ERROR_VDDPA_INVALID", "ERROR_NO_TRIM_FOUND"}, reg |-> r]

\* The loaders that return the mask of their lookup and write one byte:
\* VDDRF, VDDIF, VDDFLASH.
LoadByte(trim_values, name, target, r) ==
    LET g == Lookup(trim_values[name], target)
        field == CASE name = "vddrf" -> "VDDRF_VTRIM" [] name = "vddif" -> "VDDIF_VTRIM"
                   [] name = "vddflash" -> "VDDFLASH_VTRIM"
    IN  [ret |-> g.ret,
         reg |-> IF g.ret = ERROR_NO_ERROR
                 THEN [r EXCEPT !.ACS[field] = g.trim_val % BYTE] ELSE r]

Sys_Trim_LoadRCOSC_private(trim_values, target, r) ==
    LET g == Lookup(trim_values.rcosc, target)
    IN  [ret |-> g.ret,
         reg |-> IF g.ret = ERROR_NO_ERROR
                 THEN [r EXCEPT !.RC_FTRIM = g.trim_val % BYTE] ELSE r]

Sys_Trim_LoadRCOSC32_private(trim_values, target, r) ==
    LET g == Lookup(trim_values.rcosc32, target)
        reg_contents == (r.ACS.RCOSC_CTRL \div BYTE) * BYTE
    IN  [ret |-> g.ret,
         reg |-> IF g.ret = ERROR_NO_ERROR
                 THEN [r EXCEPT !.ACS.RCOSC_CTRL = Or(g.trim_val, reg_contents, 16)] ELSE r]

\* load_trim_functions_2_args and load_trim_functions_1_arg
load_trim_functions_2_args == << "bandgap", "vddc", "vddm" >>
load_trim_functions_1_arg ==
    << "dcdc", "vddrf", "vddpa", "vddif", "vddflash", "rcosc", "rcosc32" >>
TRIM_NUM_FUNCTIONS_2_ARGS == 3
TRIM_NUM_FUNCTIONS_1_ARG == 7

Load2Args(name, trim_values, t1, t2, r) ==
    CASE name = "bandgap" -> Sys_Trim_LoadBandgap_private(trim_values, t1, t2, r)
      [] name = "vddc"    -> Sys_Trim_LoadVDDC_private(trim_values, t1, t2, r)
      [] name = "vddm"    -> Sys_Trim_LoadVDDM_private(trim_values, t1, t2, r)
Load1Arg(name, trim_values, t, r) ==
    CASE name = "dcdc"    -> Sys_Trim_LoadDCDC_private(trim_values, t, r)
      [] name = "vddpa"   -> Sys_Trim_LoadVDDPA_private(trim_values, t, r)
      [] name = "rcosc"   -> Sys_Trim_LoadRCOSC_private(trim_values, t, r)
      [] name = "rcosc32" -> Sys_Trim_LoadRCOSC32_private(trim_values, t, r)
      [] OTHER            -> LoadByte(trim_values, name, t, r)

\* One loader's result folded into the running result st of the call: the
\* mask OR-ed in, the registers as the loader left them, the loader noted.
Fold(st, name, res) ==
    [ret |-> st.ret \cup res.ret, reg |-> res.reg, calls |-> Append(st.calls, name)]

RECURSIVE LoadLoop2(_, _, _, _)
LoadLoop2(trim_region, targets_2, i, st) ==
    IF i > TRIM_NUM_FUNCTIONS_2_ARGS THEN st
    ELSE CHOOSE x \in { LoadLoop2(trim_region, targets_2, i + 1, v) :
            v \in { Fold(st, load_trim_functions_2_args[i],
                         Load2Args(load_trim_functions_2_args[i], trim_region,
                                   targets_2[i][1], targets_2[i][2], st.reg)) } } : TRUE
RECURSIVE LoadLoop1(_, _, _, _)
LoadLoop1(trim_region, targets_1, i, st) ==
    IF i > TRIM_NUM_FUNCTIONS_1_ARG THEN st
    ELSE CHOOSE x \in { LoadLoop1(trim_region, targets_1, i + 1, v) :
            v \in { Fold(st, load_trim_functions_1_arg[i],
                         Load1Arg(load_trim_functions_1_arg[i], trim_region,
                                  targets_1[i], st.reg)) } } : TRUE

\* A variant that stops at the first loader that reports an error.
RECURSIVE LoadLoop1_StopOnError(_, _, _, _)
LoadLoop1_StopOnError(trim_region, targets_1, i, st) ==
    IF i > TRIM_NUM_FUNCTIONS_1_ARG THEN st
    ELSE LET res == Load1Arg(load_trim_functions_1_arg[i], trim_region,
                             targets_1[i], st.reg)
         IN  IF res.ret # ERROR_NO_ERROR THEN Fold(st, load_trim_functions_1_arg[i], res)
             ELSE CHOOSE x \in { LoadLoop1_StopOnError(trim_region, targets_1, i + 1, v) :
                     v \in { Fold(st, load_trim_functions_1_arg[i], res) } } : TRUE

Sys_Trim_LoadTrims_StopOnError(trim_region, targets_1, targets_2, r) ==
    IF trim_region = NULL_POINTER
    THEN [ret |-> {"ERROR_NULL"}, reg |-> r, calls |-> << >>]
    ELSE CHOOSE x \in {
            LoadLoop1_StopOnError(trim_region, targets_1, 1, st2) :
               st2 \in { LoadLoop2(trim_region, targets_2, 1,
                                   [ret |-> v, reg |-> r, calls |-> << >>]) :
                             v \in {Sys_Trim_VerifyTrims(trim_region)} } } : TRUE

Sys_Trim_LoadTrims(trim_region, targets_1, targets_2, r) ==
    IF trim_region = NULL_POINTER
    THEN [ret |-> {"ERROR_NULL"}, reg |-> r, calls |-> << >>]
    ELSE CHOOSE x \in {
            LoadLoop1(trim_region, targets_1, 1, st2) :
               st2 \in { LoadLoop2(trim_region, targets_2, 1,
                                   [ret |-> v, reg |-> r, calls |-> << >>]) :
                             v \in {Sys_Trim_VerifyTrims(trim_region)} } } : TRUE

\* Regions for the load: written, erased, written with one table erased, and
\* no region at all.
TableNames == VoltageNames \cup SingleNames \cup {"rcosc", "bandgap_current"}
LoadRegions ==
    LET written == UniformRegion(<<20595, 2580>>, "CRC_32")
    IN  { written, NULL_POINTER,
          [UniformRegion(MAX_32_BIT, "CRC_32") EXCEPT !.CHECKSUM = <<1, 1>>] }
        \cup { [written EXCEPT ![n] = FullTable(Len(written[n]), MAX_32_BIT)] :
                  n \in TableNames }
\* Targets: 115 with standby target 80 are in a written table, 99 and 70 are
\* in none.  At most one loader is given a target that is in no table.
Targets1 ==
    { [i \in 1..TRIM_NUM_FUNCTIONS_1_ARG |-> IF i = k THEN 99 ELSE 115] :
         k \in 0..TRIM_NUM_FUNCTIONS_1_ARG }
Targets2 ==
    { [i \in 1..TRIM_NUM_FUNCTIONS_2_ARGS |-> IF i = k THEN p ELSE <<115, 80>>] :
         k \in 1..TRIM_NUM_FUNCTIONS_2_ARGS,
         p \in { <<115, 80>>, <<115, 70>>, <<99, 80>>, <<99, 70>> } }

InitLoad ==
    /\ cfg = TrimCfg
    /\ op = "idle"
    /\ retention = "none"
    /\ todo = << >>
    /\ log = << >>
    /\ \E vtrim \in {7}, vtor \in VTORs, buck \in BOOLEAN :
          reg = [InitReg(FALSE, vtrim, [VTRIM |-> vtrim, BUCK |-> buck], vtor)
                    EXCEPT !.VDDC_STANDBY = vtrim, !.VDDM_STANDBY = vtrim,
                           !.RC_FTRIM = vtrim,
                           !.ACS = [f \in DOMAIN @ |->
                                       IF f = "BG_CTRL" THEN <<vtrim, vtrim>> ELSE vtrim]]
    /\ \E g \in Garbage : ram = InitRam(g)
    /\ nvr \in LoadRegions
    /\ obs = InitObs

Call_Sys_Trim_LoadTrims ==
    /\ op = "idle" /\ obs.res.fn = "none"
    /\ \E targets_1 \in Targets1, targets_2 \in Targets2 :
          LET r == Sys_Trim_LoadTrims(nvr, targets_1, targets_2, reg)
          IN  /\ reg' = r.reg
              /\ obs' = [obs EXCEPT !.res =
                            [fn |-> "Sys_Trim_LoadTrims", targets_1 |-> targets_1,
                             targets_2 |-> targets_2, ret |-> r.ret,
                             calls |-> r.calls, pre |-> reg]]
    /\ UNCHANGED <<cfg, op, retention, todo, log, ram, nvr>>

NextLoad == Call_Sys_Trim_LoadTrims
SpecLoad == InitLoad /\ [][NextLoad]_vars

LoadedTrims == obs.res.fn = "Sys_Trim_LoadTrims"
\* The mask of every loader on the region and the targets of the call.
LoaderMasks ==
    UNION ( { Load2Args(load_trim_functions_2_args[i], nvr, obs.res.targets_2[i][1],
                        obs.res.targets_2[i][2], obs.res.pre).ret :
                 i \in 1..TRIM_NUM_FUNCTIONS_2_ARGS }
            \cup { Load1Arg(load_trim_functions_1_arg[i], nvr, obs.res.targets_1[i],
                            obs.res.pre).ret :
                      i \in 1..TRIM_NUM_FUNCTIONS_1_ARG } )

TrimNames ==
    { "TRIM_BANDGAP", "TRIM_DCDC", "TRIM_VDDC", "TRIM_VDDM", "TRIM_VDDRF", "TRIM_VDDPA",
      "TRIM_VDDIF", "TRIM_FLASH", "TRIM_RCOSC", "TRIM_RCOSC32" }

\* The switch of Sys_Trim_LoadSingleTrim_private.
Sys_Trim_LoadSingleTrim_private(trim_region, target_name, target_value1, target_value2, r) ==
    CASE target_name = "TRIM_BANDGAP" ->
            Sys_Trim_LoadBandgap_private(trim_region, target_value1, target_value2, r)
      [] target_name = "TRIM_DCDC"    -> Sys_Trim_LoadDCDC_private(trim_region, target_value1, r)
      [] target_name = "TRIM_VDDC"    ->
            Sys_Trim_LoadVDDC_private(trim_region, target_value1, target_value2, r)
      [] target_name = "TRIM_VDDM"    ->
            Sys_Trim_LoadVDDM_private(trim_region, target_value1, target_value2, r)
      [] target_name = "TRIM_VDDRF"   -> LoadByte(trim_region, "vddrf", target_value1, r)
      [] target_name = "TRIM_VDDPA"   -> Sys_Trim_LoadVDDPA_private(trim_region, target_value1, r)
      [] target_name = "TRIM_FLASH"   -> LoadByte(trim_region, "vddflash", target_value1, r)
      [] target_name = "TRIM_RCOSC"   -> Sys_Trim_LoadRCOSC_private(trim_region, target_value1, r)
      [] target_name = "TRIM_RCOSC32" -> Sys_Trim_LoadRCOSC32_private(trim_region, target_value1, r)
      [] OTHER                        -> [ret |-> ERROR_NO_ERROR, reg |-> r]

\* Sys_Trim_LoadSingleTrim on the two regions and the registers r: the mask,
\* the registers after the call, and the attempts made with their masks.
Sys_Trim_LoadSingleTrim(regions, target_name, target_value1, target_value2, r) ==
    LET s == Sys_Trim_LoadSingleTrim_private(regions.TRIM_SUPPLEMENTAL, target_name,
                                             target_value1, target_value2, r)
        p == Sys_Trim_LoadSingleTrim_private(regions.TRIM, target_name,
                                             target_value1, target_value2, s.reg)
    IN  IF s.ret # ERROR_NO_ERROR
        THEN [ret |-> p.ret, reg |-> p.reg,
              attempts |-> << [region |-> "TRIM_SUPPLEMENTAL", ret |-> s.ret],
                              [region |-> "TRIM", ret |-> p.ret] >>]
        ELSE [ret |-> s.ret, reg |-> s.reg,
              attempts |-> << [region |-> "TRIM_SUPPLEMENTAL", ret |-> s.ret] >>]

\* The two regions: each written or erased, with different trims for the same
\* targets in the two.
RegionPairs ==
    { [TRIM_SUPPLEMENTAL |-> a, TRIM |-> b] :
         a \in { UniformRegion(<<20595, 3087>>, "CRC_32"),
                 UniformRegion(MAX_32_BIT, "CRC_32") },
         b \in { UniformRegion(<<20595, 2580>>, "CRC_32"),
                 UniformRegion(MAX_32_BIT, "CRC_32") } }

InitSingle ==
    /\ cfg = TrimCfg
    /\ op = "idle"
    /\ retention = "none"
    /\ todo = << >>
    /\ log = << >>
    /\ \E vtrim \in {7}, vtor \in VTORs, buck \in BOOLEAN :
          reg = [InitReg(FALSE, vtrim, [VTRIM |-> vtrim, BUCK |-> buck], vtor)
                    EXCEPT !.VDDC_STANDBY = vtrim, !.VDDM_STANDBY = vtrim,
                           !.RC_FTRIM = vtrim,
                           !.ACS = [f \in DOMAIN @ |->
                                       IF f = "BG_CTRL" THEN <<vtrim, vtrim>> ELSE vtrim]]
    /\ \E g \in Garbage : ram = InitRam(g)
    /\ nvr \in RegionPairs
    /\ obs = InitObs

Call_Sys_Trim_LoadSingleTrim ==
    /\ op = "idle" /\ obs.res.fn = "none"
    /\ \E target_name \in TrimNames, target_value1 \in {115, 99}, target_value2 \in {80, 70} :
          LET r == Sys_Trim_LoadSingleTrim(nvr, target_name, target_value1,
                                           target_value2, reg)
          IN  /\ reg' = r.reg
              /\ obs' = [obs EXCEPT !.res =
                            [fn |-> "Sys_Trim_LoadSingleTrim", target_name |-> target_name,
                             target_value1 |-> target_value1,
                             target_value2 |-> target_value2, ret |-> r.ret,
                             attempts |-> r.attempts, pre |-> reg]]
    /\ UNCHANGED <<cfg, op, retention, todo, log, ram, nvr>>

NextSingle == Call_Sys_Trim_LoadSingleTrim
SpecSingle == InitSingle /\ [][NextSingle]_vars

LoadedSingle == obs.res.fn = "Sys_Trim_LoadSingleTrim"
\* The loader of a named domain, as the loader tables of Sys_Trim_LoadTrims
\* have it, on a region.
LoaderOf ==
    [ TRIM_BANDGAP |-> "bandgap", TRIM_DCDC |-> "dcdc", TRIM_VDDC |-> "vddc",
      TRIM_VDDM |-> "vddm", TRIM_VDDRF |-> "vddrf", TRIM_VDDPA |-> "vddpa",
      TRIM_VDDIF |-> "vddif", TRIM_FLASH |-> "vddflash", TRIM_RCOSC |-> "rcosc",
      TRIM_RCOSC32 |-> "rcosc32" ]
DomainLoad(trim_region, target_name, t1, t2, r) ==
    IF \E i \in 1..TRIM_NUM_FUNCTIONS_2_ARGS :
          load_trim_functions_2_args[i] = LoaderOf[target_name]
    THEN Load2Args(LoaderOf[target_name], trim_region, t1, t2, r)
    ELSE Load1Arg(LoaderOf[target_name], trim_region, t1, r)

\* The fallback rule of C17 alone: the attempts made and the mask returned.
SingleTrimFallback ==
    LoadedSingle =>
        LET a == obs.res.attempts
        IN  /\ a[1].region = "TRIM_SUPPLEMENTAL"
            /\ Len(a) = IF a[1].ret # ERROR_NO_ERROR THEN 2 ELSE 1
            /\ Len(a) = 2 => a[2].region = "TRIM" /\ obs.res.ret = a[2].ret
            /\ Len(a) = 1 => obs.res.ret = ERROR_NO_ERROR

\* C17: Sys_Trim_LoadSingleTrim attempts the supplemental region first and
\* the primary region if and only if that attempt returned a non-zero mask;
\* when the supplemental attempt succeeds, the primary region is not read
\* and the trim applied is the one of the supplemental region; when it falls
\* back, the mask returned is the one of the primary attempt.
C17_LoadSingleTrim ==
    /\ SingleTrimFallback
    /\ LoadedSingle /\ Len(obs.res.attempts) = 1 =>
          reg = DomainLoad(nvr.TRIM_SUPPLEMENTAL, obs.res.target_name,
                           obs.res.target_value1, obs.res.target_value2, obs.res.pre).reg

(***************************************************************************)
(* Sys_Trim_LoadCustom (trim.c:1132-1189).  The custom trim area holds a   *)
(* signature, the charge pump current trim, the crystal trim and, behind   *)
(* them, the CRC-32 of the words in front of it.                           *)
(***************************************************************************)
TRIM_CUSTOM_SIP1_SIGNATURE == <<21321, 20529>>
TRIM_CUSTOM_CUST_SIGNATURE == <<17237, 21332>>
MAX_4_BIT == 15

\* value > max for a 32-bit value and a maximum below 2^16
Above(value, max) == value[1] # 0 \/ value[2] > max
\* The words from TRIM_CUSTOM_BASE up to the CRC word.
CustomCovered(custom) == << custom.SIGNATURE, custom.ICH_TRIM, custom.XTAL_TRIM >>

\* A variant that applies the two fields only when both are in range.
Sys_Trim_LoadCustom_AllOrNothing(custom, r) ==
    IF custom.SIGNATURE \notin {TRIM_CUSTOM_SIP1_SIGNATURE, TRIM_CUSTOM_CUST_SIGNATURE}
    THEN [ret |-> {"ERROR_TRIM_CUSTOM_SIGNATURE_INVALID"}, reg |-> r]
    ELSE LET acc == CrcLoop(<<CRC_32_INIT_HALF, CRC_32_INIT_HALF>>, CustomCovered(custom),
                            1, Len(CustomCovered(custom)))
             r1 == [r EXCEPT !.CRC_CFG = "CRC_32", !.CRC_VALUE = acc]
             ret_val == (IF Above(custom.ICH_TRIM, MAX_4_BIT)
                         THEN {"ERROR_TRIM_CUSTOM_ICH_INVALID"} ELSE {})
                        \cup (IF Above(custom.XTAL_TRIM, MAX_8_BIT)
                              THEN {"ERROR_TRIM_CUSTOM_XTAL_INVALID"} ELSE {})
         IN  IF custom.CRC # Sys_CRC_GetFinalValue(acc)
             THEN [ret |-> {"ERROR_INVALID_CRC"}, reg |-> r1]
             ELSE [ret |-> ret_val,
                   reg |-> IF ret_val # {} THEN r1
                           ELSE [r1 EXCEPT !.ACS.ICH_TRIM = custom.ICH_TRIM[2],
                                           !.REG2E = [XTAL_TRIM_INIT |-> custom.XTAL_TRIM[2],
                                                      XTAL_TRIM |-> custom.XTAL_TRIM[2]]]]

\* Sys_Trim_LoadCustom() on the custom trim area and the registers r.
Sys_Trim_LoadCustom(custom, r) ==
    IF custom.SIGNATURE \notin {TRIM_CUSTOM_SIP1_SIGNATURE, TRIM_CUSTOM_CUST_SIGNATURE}
    THEN [ret |-> {"ERROR_TRIM_CUSTOM_SIGNATURE_INVALID"}, reg |-> r]
    ELSE LET acc == CrcLoop(<<CRC_32_INIT_HALF, CRC_32_INIT_HALF>>, CustomCovered(custom),
                            1, Len(CustomCovered(custom)))
             r1 == [r EXCEPT !.CRC_CFG = "CRC_32", !.CRC_VALUE = acc]
             r2 == IF Above(custom.ICH_TRIM, MAX_4_BIT) THEN r1
                   ELSE [r1 EXCEPT !.ACS.ICH_TRIM = custom.ICH_TRIM[2]]
             r3 == IF Above(custom.XTAL_TRIM, MAX_8_BIT) THEN r2
                   ELSE [r2 EXCEPT !.REG2E = [XTAL_TRIM_INIT |-> custom.XTAL_TRIM[2],
                                              XTAL_TRIM |-> custom.XTAL_TRIM[2]]]
         IN  IF custom.CRC # Sys_CRC_GetFinalValue(acc)
             THEN [ret |-> {"ERROR_INVALID_CRC"}, reg |-> r1]
             ELSE [ret |-> (IF Above(custom.ICH_TRIM, MAX_4_BIT)
                            THEN {"ERROR_TRIM_CUSTOM_ICH_INVALID"} ELSE {})
                           \cup (IF Above(custom.XTAL_TRIM, MAX_8_BIT)
                                 THEN {"ERROR_TRIM_CUSTOM_XTAL_INVALID"} ELSE {}),
                   reg |-> r3]

Signatures == { TRIM_CUSTOM_SIP1_SIGNATURE, TRIM_CUSTOM_CUST_SIGNATURE, MIN_32_BIT, MAX_32_BIT }
IchValues == { <<0, 0>>, <<0, MAX_4_BIT>>, <<0, MAX_4_BIT + 1>>, <<1, 3>> }
XtalValues == { <<0, 1>>, <<0, MAX_8_BIT>>, <<0, MAX_8_BIT + 1>>, <<1, 5>> }
\* The custom areas: every combination of the fields, with the CRC of the
\* fields or with another word in its place.
CustomAreas ==
    UNION { { [SIGNATURE |-> sg, ICH_TRIM |-> i, XTAL_TRIM |-> x, CRC |-> c] :
                 c \in { RegionCrc32(<<sg, i, x>>), MAX_32_BIT } } :
            sg \in Signatures, i \in IchValues, x \in XtalValues }

InitCustom ==
    /\ cfg = TrimCfg
    /\ op = "idle"
    /\ retention = "none"
    /\ todo = << >>
    /\ log = << >>
    /\ \E vtor \in VTORs :
          reg = [InitReg(FALSE, 0, LowVcc, vtor)
                    EXCEPT !.ACS.ICH_TRIM = 7,
                           !.REG2E = [XTAL_TRIM_INIT |-> 7, XTAL_TRIM |-> 9]]
    /\ \E g \in Garbage : ram = InitRam(g)
    /\ nvr \in CustomAreas
    /\ obs = InitObs

Call_Sys_Trim_LoadCustom ==
    /\ op = "idle" /\ obs.res.fn = "none"
    /\ LET r == Sys_Trim_LoadCustom(nvr, reg)
       IN  /\ reg' = r.reg
           /\ obs' = [obs EXCEPT !.res = [fn |-> "Sys_Trim_LoadCustom", ret |-> r.ret,
                                          pre |-> reg]]
    /\ UNCHANGED <<cfg, op, retention, todo, log, ram, nvr>>

NextCustom == Call_Sys_Trim_LoadCustom
SpecCustom == InitCustom /\ [][NextCustom]_vars

LoadedCustom == obs.res.fn = "Sys_Trim_LoadCustom"
SignatureValid == nvr.SIGNATURE \in {TRIM_CUSTOM_SIP1_SIGNATURE, TRIM_CUSTOM_CUST_SIGNATURE}
CustomCrcValid == nvr.CRC = RegionCrc32(CustomCovered(nvr))
FourBits(value) == value[1] = 0 /\ value[2] < 2 ^ 4
EightBits(value) == value[1] = 0 /\ value[2] < 2 ^ 8
IchWritten == reg.ACS.ICH_TRIM = nvr.ICH_TRIM[2]
XtalWritten == reg.REG2E = [XTAL_TRIM_INIT |-> nvr.XTAL_TRIM[2], XTAL_TRIM |-> nvr.XTAL_TRIM[2]]
TrimsUntouched == reg.ACS = obs.res.pre.ACS /\ reg.REG2E = obs.res.pre.REG2E

\* C18: Sys_Trim_LoadCustom returns SignatureInvalid for a signature that is
\* neither recognised value, leaving the CRC engine and the trim registers
\* as they were; returns InvalidCRC for a valid signature and a CRC that
\* does not fit, leaving the trim registers as they were; and otherwise
\* writes the charge pump current trim iff it fits 4 bits and the crystal
\* trim iff it fits 8 bits, each whatever the other is, and reports
\* IchInvalid and XtalInvalid each for its own field.
C18_LoadCustom ==
    LoadedCustom =>
        IF ~SignatureValid
        THEN /\ obs.res.ret = {"ERROR_TRIM_CUSTOM_SIGNATURE_INVALID"}
             /\ reg = obs.res.pre
        ELSE IF ~CustomCrcValid
        THEN /\ obs.res.ret = {"ERROR_INVALID_CRC"}
             /\ TrimsUntouched
        ELSE /\ IF FourBits(nvr.ICH_TRIM) THEN IchWritten
                ELSE reg.ACS.ICH_TRIM = obs.res.pre.ACS.ICH_TRIM
             /\ IF EightBits(nvr.XTAL_TRIM) THEN XtalWritten
                ELSE reg.REG2E = obs.res.pre.REG2E
             /\ ("ERROR_TRIM_CUSTOM_ICH_INVALID" \in obs.res.ret) <=> ~FourBits(nvr.ICH_TRIM)
             /\ ("ERROR_TRIM_CUSTOM_XTAL_INVALID" \in obs.res.ret) <=> ~EightBits(nvr.XTAL_TRIM)
             /\ obs.res.ret \subseteq {"ERROR_TRIM_CUSTOM_ICH_INVALID",
                                       "ERROR_TRIM_CUSTOM_XTAL_INVALID"}
\* A load that applied the crystal trim and rejected the charge pump current
\* trim.
C18_Witness ==
    /\ LoadedCustom
    /\ obs.res.ret = {"ERROR_TRIM_CUSTOM_ICH_INVALID"}
    /\ XtalWritten
    /\ reg.REG2E # obs.res.pre.REG2E
    /\ reg.ACS.ICH_TRIM = obs.res.pre.ACS.ICH_TRIM

(***************************************************************************)
(* Wake through the internal RC oscillator (boot configuration             *)
(* BOOT_FLASH_XTAL_DISABLE) for every system clock frequency and for       *)
(* calibration regions that lack some or all of the RC records.            *)
(***************************************************************************)
RcSysFreqs == { 3000000, 12000000, 24000000, 48000000, 8000000 }
RcCfgSet ==
    [ boot_cfg        : {"BOOT_FLASH_XTAL_DISABLE"},
      systemclk_freq  : RcSysFreqs,
      app_gpio_config : {FALSE},
      ble_present     : {FALSE},
      vddt_ret        : {FALSE},
      app_addr        : {TRUE} ]
RcNvrSet ==
    { [rcosc |-> t, dcdc |-> {}] : t \in { {}, RcTargets, {TARGET_RC12}, {3000, 24000} } }

InitRc == InitFrom(RcCfgSet, {FALSE}, {0}, {LowVcc}, Garbage, RcNvrSet)

NextRc ==
    \/ Sys_PowerModes_Sleep_Init \/ Sys_PowerModes_Standby_Init
    \/ Sys_PowerModes_DeepSleep_Init
    \/ (\E retention_type \in Sleep_Retention_t :
           Sys_PowerModes_Sleep_Enter(retention_type))
    \/ Sys_PowerModes_Standby_Enter
    \/ Sys_PowerModes_DeepSleep_Enter \/ Sys_PowerModes_Wakeup_WithReset
    \/ ENABLE_IRQ \/ DISABLE_IRQ \/ ISB \/ NVIC_ENABLE \/ WATCHDOG_REFRESH
    \/ ISR_Run
    \/ RCOSC_3MHZ_ENABLE \/ SYSCLK_SELECT
    \/ RCOSC_TRIM_AND_FSEL \/ DIVIDER_CONFIG
    \/ IF_RF_ACCESS_ENABLE \/ RF_ACCESS_DISABLE \/ RF_POWER_DISABLE
    \/ VDDPA_DISABLE \/ VDDRF_DISABLE \/ PADS_RETENTION_ENABLE \/ STANDBY_VTRIM_WRITE
    \/ VDDRET_CTRL_WRITE \/ BOOT_GP_DATA_WRITE \/ PWR_MODES_CTRL_WRITE
    \/ IF_VDDC_BELOW_1P10V \/ IF_RESTORE_TRIM
    \/ APP_PTR_WRITE_0_TO_6 \/ CRC_CONFIG \/ CRC_32_INIT \/ CRC_ADD_WORDS
    \/ APP_PTR_WRITE_7_CRC \/ WAKEUP_ADDR_WRITE \/ GP_DATA_WRITE
    \/ CLK_DET_ENABLE \/ WAIT_CLOCK_PRESENT \/ CLK_DET_CLEAR_RESET_IGNORE
    \/ PADS_RETENTION_DISABLE \/ CLEAR_RESET_FLAGS
    \/ WAKEUP_IRQ_SET_PENDING \/ HW_ClockPresent
    \/ WFI_Immediate \/ WFI_Resume \/ WFI_Reset
    \/ RETURN

SpecRc == InitRc /\ [][NextRc]_vars /\ WF_vars(NextRc)

\* The wake's clock init has run in the current call and the load of the RC
\* trim for the configured frequency failed.
RcClockInitDone == op # "idle" /\ Executed("DIVIDER_CONFIG") /\ Executed("RCOSC_TRIM_AND_FSEL")
RcTrimFailed == (cfg.systemclk_freq \div 1000) \notin nvr.rcosc
\* The wake sequence has run to its end: the routine returns to the
\* application.
RcWakeEnd == At("RETURN")
RcSettled ==
    RcClockInitDone =>
        /\ RcTrimFailed => reg.RC_FSEL = "12MHZ" /\ reg.FLASH_DELAY = "12MHZ"
        /\ reg.RC_FSEL \in {"3MHZ", "12MHZ", "24MHZ", "48MHZ"}
        /\ reg.FLASH_DELAY = reg.RC_FSEL

\* C19: on a wake through the internal RC oscillator, when the load of the
\* RC trim for the configured frequency fails the oscillator runs at 12 MHz
\* with the flash delay for 12 MHz, and the wake sequence runs to its end;
\* after the clock init the frequency select is one of the four settings and
\* agrees with the flash delay.
C19_RcFallback ==
    /\ [] RcSettled
    /\ (op # "idle" /\ Executed("RCOSC_TRIM_AND_FSEL") /\ RcTrimFailed) ~> RcWakeEnd
\* A wake that ended on the fallback although another frequency was
\* configured.
C19_Witness ==
    /\ RcClockInitDone /\ RcTrimFailed /\ At("RETURN")
    /\ cfg.systemclk_freq = 48000000
    /\ reg.RC_FSEL = "12MHZ"
    /\ reg.SystemCoreClock = 12000000

(***************************************************************************)
(* Sys_Clocks_DividerConfig (clock.c): the divisors of the clock domains   *)
(* derived from the system clock.  The function reads SystemCoreClock,     *)
(* asserts it non-zero, and writes the SLOWCLK, BBCLK and UARTCLK divisors *)
(* to DIV_CFG0 and the DCCLK divisor to DIV_CFG1.  The source shifts each  *)
(* divisor into its field without masking; the field widths belong to the  *)
(* hardware header and are not modelled.                                   *)
(***************************************************************************)
SLOWCLK_FREQ == 1000000
BBCLK_FREQ == 8000000
DCCLK_FREQ == 4000000

Sys_Clocks_DividerConfig(uartclk_freq, r) ==
    [r EXCEPT !.DIV_CFG = [core    |-> r.SystemCoreClock,
                           slowclk |-> Divisor(r.SystemCoreClock, SLOWCLK_FREQ),
                           bbclk   |-> Divisor(r.SystemCoreClock, BBCLK_FREQ),
                           uartclk |-> Divisor(r.SystemCoreClock, uartclk_freq),
                           dcclk   |-> Divisor(r.SystemCoreClock, DCCLK_FREQ)]]

\* Core clocks: the RC oscillator settings, the 48 MHz crystal divided by a
\* prescaler, and the 32 kHz standby clock.
DivCoreClocks ==
    { 48000000, 24000000, 16000000, 12000000, 9600000, 8000000, 6000000,
      3000000, 32768 }

\* UART targets, among them targets that divide the core clock, targets
\* that do not, and targets above it.
DivUartFreqs ==
    { 1000000, 900000, 115200, 9600, 3000000, 4000000, 7372800, 8000000,
      48000000, 50000000, 32768, 1 }

InitDiv ==
    /\ cfg = TrimCfg
    /\ op = "idle"
    /\ retention = "none"
    /\ todo = << >>
    /\ log = << >>
    /\ \E vtor \in VTORs, core \in DivCoreClocks :
          reg = [InitReg(FALSE, 0, LowVcc, vtor) EXCEPT !.SystemCoreClock = core]
    /\ \E g \in Garbage : ram = InitRam(g)
    /\ nvr \in NvrSet
    /\ obs = InitObs

Call_Sys_Clocks_DividerConfig ==
    /\ op = "idle" /\ obs.res.fn = "none"
    /\ reg.SystemCoreClock # 0
    /\ \E uartclk_freq \in DivUartFreqs :
          /\ reg' = Sys_Clocks_DividerConfig(uartclk_freq, reg)
          /\ obs' = [obs EXCEPT !.res = [fn |-> "Sys_Clocks_DividerConfig",
                                         uartclk_freq |-> uartclk_freq]]
    /\ UNCHANGED <<cfg, op, retention, todo, log, ram, nvr>>

NextDiv == Call_Sys_Clocks_DividerConfig
SpecDiv == InitDiv /\ [][NextDiv]_vars

DividersProgrammed == obs.res.fn = "Sys_Clocks_DividerConfig"

\* The domains derived from the system clock, each with its target.
DomainTargets ==
    [slowclk |-> SLOWCLK_FREQ, bbclk |-> BBCLK_FREQ, dcclk |-> DCCLK_FREQ,
     uartclk |-> IF DividersProgrammed THEN obs.res.uartclk_freq ELSE 1]

\* floor(core / target), by the defining inequalities of the quotient.
IsFloor(q, core, target) == q * target <= core /\ core < (q + 1) * target

\* d is floor(core / target), less one exactly when target divides core.
DivisorAsStated(d, core, target) ==
    \/ (d + 1) * target = core
    \/ IsFloor(d, core, target) /\ d * target # core

\* C20: once Sys_Clocks_DividerConfig has run with a non-zero core clock and
\* a non-zero UART target, each of the SLOWCLK (1 MHz), BBCLK (8 MHz),
\* UARTCLK and DCCLK (4 MHz) divisors equals floor(coreClock / target),
\* decremented by one exactly when coreClock is an integer multiple of the
\* target, so coreClock / (divisor + 1) does not exceed the target; with a
\* core clock of 48,000,000 the UART divisor is 47 for a target of 1,000,000
\* and 53 for a target of 900,000.
C20_DividerConfig ==
    DividersProgrammed =>
        LET core == reg.SystemCoreClock
        IN  /\ \A d \in DOMAIN DomainTargets :
                  /\ DivisorAsStated(reg.DIV_CFG[d], core, DomainTargets[d])
                  /\ core <= (reg.DIV_CFG[d] + 1) * DomainTargets[d]
            /\ (core = 48000000 /\ obs.res.uartclk_freq = 1000000)
                  => reg.DIV_CFG.uartclk = 47
            /\ (core = 48000000 /\ obs.res.uartclk_freq = 900000)
                  => reg.DIV_CFG.uartclk = 53

C20_Witness ==
    /\ DividersProgrammed
    /\ reg.SystemCoreClock = 48000000
    /\ obs.res.uartclk_freq = 900000
    /\ reg.DIV_CFG.uartclk = 53
    /\ reg.DIV_CFG.slowclk = 47

(***************************************************************************)
(* Sys_PowerModes_XTAL_ClockInit (power_modes.c) called by the application *)
(* with a clock configuration of its own.                                  *)
(***************************************************************************)
\* Requested frequencies: quotients RFCLK_BASE_FREQ / f inside 1..7, below
\* 1, between 8 and 255, and from 256 on.
XtalSysFreqs ==
    { 48000000, 16000000, 8000000, 6857142, 6000000, 96000000, 1000000,
      188235, 187500, 186000, 184000, 100000 }
XtalCfgSet ==
    [ boot_cfg        : {"BOOT_FLASH_XTAL_DEFAULT_TRIM"},
      systemclk_freq  : XtalSysFreqs,
      app_gpio_config : {FALSE},
      ble_present     : {FALSE},
      vddt_ret        : {FALSE},
      app_addr        : {TRUE} ]

InitXtal == InitFrom(XtalCfgSet, BOOLEAN, {0}, {LowVcc}, Garbage, NvrSet)

Sys_PowerModes_XTAL_ClockInit ==
    Call("none", "XTAL_ClockInit", XTAL_ClockInit_Body \o << S("RETURN") >>, "none")

NextXtal ==
    \/ Sys_PowerModes_XTAL_ClockInit
    \/ VDDRF_ENABLE \/ WAIT_VDDRF_READY \/ VDDPA_CONNECT_VDDRF \/ RF_ENABLE
    \/ XTAL_START \/ XTAL_PRESCALER_WRITE \/ WAIT_CLK_DIG_READY
    \/ SYSCLK_SELECT \/ DIVIDER_CONFIG
    \/ HW_VDDRF_Ready \/ HW_ClkDigReady
    \/ RETURN
SpecXtal == InitXtal /\ [][NextXtal]_vars

\* The prescaler has been written in the current call of the function.
XtalPrescalerApplied == op = "XTAL_ClockInit" /\ Executed("XTAL_PRESCALER_WRITE")
Clamp(x, lo, hi) == IF x > hi THEN hi ELSE IF x < lo THEN lo ELSE x

\* C21: once Sys_PowerModes_XTAL_ClockInit has applied the prescaler for a
\* non-zero requested frequency f, the prescaler of the crystal oscillator
\* is floor(RFCLK_BASE_FREQ / f) clamped to PRESCALE_1..PRESCALE_7:
\* quotients above 7, those of 256 and more included, give 7 and quotients
\* below 1 give 1.
C21_XtalPrescalerClamped ==
    XtalPrescalerApplied =>
        reg.XTAL_PRESCALE = Clamp(RFCLK_BASE_FREQ \div cfg.systemclk_freq,
                                  CK_DIV_1_6_PRESCALE_1_BYTE, CK_DIV_1_6_PRESCALE_7_BYTE)

\* The clamp as far as it holds: for quotients that fit eight bits.
XtalClampedBelow256 ==
    (XtalPrescalerApplied /\ RFCLK_BASE_FREQ \div cfg.systemclk_freq < 256) =>
        reg.XTAL_PRESCALE = Clamp(RFCLK_BASE_FREQ \div cfg.systemclk_freq,
                                  CK_DIV_1_6_PRESCALE_1_BYTE, CK_DIV_1_6_PRESCALE_7_BYTE)

(***************************************************************************)
(* RF front end: Sys_RFFE_SetTXPower and its helpers (source/rffe.c).      *)
(*                                                                         *)
(* reg holds the registers the three functions access.  The fields of      *)
(* ACS->VDDPA_CTRL and ACS->AOUT_CTRL are kept by name, their bit values   *)
(* being in a hardware header outside the sources; VTRIM_BYTE of           *)
(* ACS_VDDPA_CTRL is the byte alias of the field vtrim.  LSAD_DATA is the  *)
(* sequence of the three samples the converter delivers to the three       *)
(* reads of Sys_RFFE_MeasureSupply.  nvr holds the fields of TRIM that     *)
(* the functions read.                                                     *)
(***************************************************************************)
MAX_LSAD_CHANNEL == 7
VCC_VDDRF_MARGIN == 50
MV_PER_DBM_VDDRF == 75
STEPS_PER_DBM_VDDRF == 6
STEPS_PER_DBM_VDDPA == 10
RF_MAX_POWER == 6
RF_MAX_POWER_NO_VDDPA == 2
RF_NO_VDDPA_TYPICAL_POWER == 0
RF_MIN_POWER == -17
PA_PWR_BYTE_0DBM == 12
PA_ENABLE_BIAS_SETTING == 243
PA_DISABLE_BIAS_SETTING == 115
SW_CTRL_DELAY_3_BYTE == 2
RAMPUP_DELAY_3_BYTE == 2
DISABLE_DELAY_3_BYTE == 2
ERRNO_RFFE_INVALIDSETTING_ERROR == 51
ERRNO_RFFE_VCC_INSUFFICIENT == 52
TARGET_VDDRF_1070 == 107
LSAD_OFFSET_ERROR_CONV_QUOTIENT == 32768
LSAD_GAIN_ERROR_CONV_QUOTIENT == 65536
V_TO_MV == 1000

\* Division and remainder of C: the quotient is truncated towards zero.
CDiv(a, b) == IF a >= 0 THEN a \div b ELSE -((-a) \div b)
CRem(a, b) == a - b * CDiv(a, b)

\* a | b on unsigned values.
RECURSIVE BitOr(_, _)
BitOr(a, b) ==
    IF a = 0 THEN b
    ELSE IF b = 0 THEN a
    ELSE (IF a % 2 = 1 \/ b % 2 = 1 THEN 1 ELSE 0) + 2 * BitOr(a \div 2, b \div 2)

\* What the build makes of the conversion of a floating-point value outside
\* 0 .. 255 to uint8_t, which the language leaves undefined: "zero" is the
\* saturating conversion instruction of the processor followed by the
\* truncation to a byte, "wrap" the conversion through a signed integer.
ConversionOutcomes == {"zero", "wrap"}

FloatToU8(x, ub) ==
    IF x >= 0 THEN x % 256
    ELSE IF ub = "zero" THEN 0 ELSE x % 256

\* Sys_RFFE_GetMedian without the second comparison of a and b.
Sys_RFFE_GetMedian_NoSecondCompare(a, b, c) ==
    LET b1 == IF a > b THEN a ELSE b
    IN  IF b1 > c THEN c ELSE b1

\* SWAP and the three comparisons of Sys_RFFE_GetMedian.
Sys_RFFE_GetMedian(a, b, c) ==
    LET a1 == IF a > b THEN b ELSE a
        b1 == IF a > b THEN a ELSE b
    IN  IF b1 > c
        THEN \* b and c are exchanged, then a and b compared again
             LET b2 == c
             IN  IF a1 > b2 THEN a1 ELSE b2
        ELSE b1

\* CONVERT: (uint32_t)((x * 1000) >> 13).  The samples drawn are of 14 bits,
\* the product being below 2^32.
CONVERT(x) == (x * 1000) \div 8192

\* a - b on uint32_t for a and b below 2^31, as a word of two halves, and
\* the comparison of two such words.
Sub32(a, b) ==
    IF a >= b THEN << (a - b) \div HALF, (a - b) % HALF >>
    ELSE << (HALF - 1) - ((b - a - 1) \div HALF), (HALF - 1) - ((b - a - 1) % HALF) >>

Less32(x, y) == x[1] < y[1] \/ (x[1] = y[1] /\ x[2] < y[2])

\* Sys_RFFE_MeasureSupply: the median of the three samples in millivolts,
\* corrected by the offset and the gain of the low-frequency LSAD trim.
\* (median/1000 - lf_offset/32768) / (lf_gain/65536) * 1000 is computed on
\* rationals and truncated; lf_offset is the int16_t value.  The result of
\* a negative value, undefined in C, is not modelled: the offsets drawn are
\* not above the measured value, and the results are below 2^31.  For the
\* samples and trims drawn the single-precision computation of the code
\* has the same result.
Sys_RFFE_MeasureSupply(samples, trims) ==
    LET median == CONVERT(Sys_RFFE_GetMedian(samples[1], samples[2], samples[3]))
        num    == (median * LSAD_OFFSET_ERROR_CONV_QUOTIENT - V_TO_MV * trims.lf_offset)
                  * (LSAD_GAIN_ERROR_CONV_QUOTIENT \div LSAD_OFFSET_ERROR_CONV_QUOTIENT)
    IN  CDiv(num, trims.lf_gain)

\* The value ACS->VDDPA_CTRL is written with, the switch left in high
\* impedance by both paths.
VddpaCtrl_HiZ(sw, trims) ==
    [initial_trim |-> "VDDPA_INITIAL_TRIM_1P10V", sw |-> "VDDPA_SW_HIZ",
     isense |-> "VDDPA_ISENSE_DISABLE", enable |-> "VDDPA_DISABLE",
     vtrim |-> trims.vddpa2]

\* The value ACS->VDDPA_CTRL is written with by the two paths, which differ
\* in the switch setting.
VddpaCtrl(sw, trims) ==
    [initial_trim |-> "VDDPA_INITIAL_TRIM_1P10V", sw |-> sw,
     isense |-> "VDDPA_ISENSE_DISABLE", enable |-> "VDDPA_DISABLE",
     vtrim |-> trims.vddpa2]

\* Sys_RFFE_SetTXPower_NoVDDPA(target, lsad_channel) on the registers r.
\* The result holds the registers on return, the error returned, the
\* supply measured (-1 if it was not measured) and the registers as they
\* were while the supply was measured.
Sys_RFFE_SetTXPower_NoVDDPA(target, lsad_channel, r, trims, ub) ==
    LET lsad_bk     == r.LSAD_INPUT_SEL[lsad_channel]
        aout_bk     == r.AOUT_CTRL
        lsad_cfg_bk == r.LSAD_CFG
        r1 == [r EXCEPT !.LSAD_CFG = {"LSAD_NORMAL", "LSAD_PRESCALE_200", "VBAT_DIV2_ENABLE"},
                        !.LSAD_INPUT_SEL[lsad_channel] = {"LSAD_POS_INPUT_AOUT", "LSAD_NEG_INPUT_GND"},
                        !.AOUT_CTRL = [test_aout |-> "AOUT_NOT_CONNECTED_TO_GPIO",
                                       aout_to_gpio |-> "SEL_AOUT_TO_GPIO"]]
        positive == target > RF_NO_VDDPA_TYPICAL_POWER
        r2 == IF positive THEN [r1 EXCEPT !.AOUT_CTRL.test_aout = "AOUT_VCC"] ELSE r1
        vcc == Sys_RFFE_MeasureSupply(r2.LSAD_DATA, trims)
        vddrf_max == Sub32(vcc, VCC_VDDRF_MARGIN)
        insufficient ==
            positive /\ Less32(vddrf_max,
                               Sub32(TARGET_VDDRF_1070 * 10 + target * MV_PER_DBM_VDDRF, 0))
        disabled == [r2 EXCEPT !.DYNAMIC_CTRL = "DYNAMIC_CTRL_DISABLE_BYTE",
                               !.VDDPA_CTRL = VddpaCtrl("VDDPA_SW_VDDRF", trims),
                               !.BIAS_0_IQ_RXTX = PA_DISABLE_BIAS_SETTING]
        \* target <= 0: upper_trim and lower_trim are 2 * target + 1 and
        \* 2 * target - 1; power_error * STEPS_PER_DBM_VDDRF is
        \* (2 * target - 3 * k) * STEPS_PER_DBM_VDDRF / 2.
        upper_trim == 2 * target + 1
        lower_trim == 2 * target - 1
        pa_upper == (PA_PWR_BYTE_0DBM + FloatToU8(CDiv(upper_trim, 3), ub)) % 256
        pa_lower == (PA_PWR_BYTE_0DBM + CDiv(lower_trim, 3)) % 256
        pa_even  == (PA_PWR_BYTE_0DBM + CDiv(target * 2, 3)) % 256
        Adjusted(pa) ==
            FloatToU8(trims.vddrf1
                      + ((2 * target - 3 * (pa - PA_PWR_BYTE_0DBM)) * STEPS_PER_DBM_VDDRF) \div 2,
                      ub)
        pa_pwr_temp ==
            IF insufficient THEN 255
            ELSE IF positive THEN PA_PWR_BYTE_0DBM
            ELSE IF CRem(upper_trim, 3) = 0 THEN pa_upper
            ELSE IF CRem(lower_trim, 3) = 0 THEN pa_lower
            ELSE pa_even
        vtrim ==
            IF positive THEN (trims.vddrf1 + target * STEPS_PER_DBM_VDDRF) % 256
            ELSE IF CRem(upper_trim, 3) = 0 THEN Adjusted(pa_upper)
            ELSE IF CRem(lower_trim, 3) = 0 THEN Adjusted(pa_lower)
            ELSE trims.vddrf1 % 256
        r3 == IF insufficient THEN r2 ELSE [disabled EXCEPT !.VDDRF_VTRIM = vtrim]
        r4 == [r3 EXCEPT !.LSAD_CFG = lsad_cfg_bk,
                         !.AOUT_CTRL = aout_bk,
                         !.LSAD_INPUT_SEL[lsad_channel] = lsad_bk]
        r5 == IF pa_pwr_temp # 255 THEN [r4 EXCEPT !.PA_PWR = pa_pwr_temp] ELSE r4
    IN  [reg |-> r5,
         error |-> IF insufficient THEN ERRNO_RFFE_VCC_INSUFFICIENT ELSE 0,
         vcc |-> IF positive THEN vcc ELSE -1,
         measuring |-> r2]

\* Sys_RFFE_SetTXPower_VDDPA(target, lsad_channel) on the registers r.
Sys_RFFE_SetTXPower_VDDPA(target, lsad_channel, r, trims, ub) ==
    LET pa_pwr_temp == (PA_PWR_BYTE_0DBM + CDiv((target - RF_MAX_POWER) * 2, 3)) % 256
        \* power_error * STEPS_PER_DBM_VDDPA
        adjust == ((2 * (target - RF_MAX_POWER) - 3 * (pa_pwr_temp - PA_PWR_BYTE_0DBM))
                   * STEPS_PER_DBM_VDDPA) \div 2
        r1 == [r EXCEPT !.VDDPA_CTRL = VddpaCtrl("VDDPA_SW_HIZ", trims),
                        !.DYNAMIC_CTRL = "DYNAMIC_CTRL_ENABLE_BYTE",
                        !.SW_CTRL_DELAY = SW_CTRL_DELAY_3_BYTE,
                        !.RAMPUP_DELAY = RAMPUP_DELAY_3_BYTE,
                        !.DISABLE_DELAY = DISABLE_DELAY_3_BYTE,
                        !.BIAS_0_IQ_RXTX = PA_ENABLE_BIAS_SETTING]
        r2 == IF CRem(target, 3) # 0
              THEN [r1 EXCEPT !.VDDPA_CTRL.vtrim = FloatToU8(r1.VDDPA_CTRL.vtrim + adjust, ub)]
              ELSE r1
        r3 == IF pa_pwr_temp # 255 THEN [r2 EXCEPT !.PA_PWR = pa_pwr_temp] ELSE r2
    IN  [reg |-> r3, error |-> 0]

\* The tests of Sys_RFFE_SetTXPower without the lower bound of the target.
InvalidSetting_NoLowerBound(target, lsad_channel) ==
    \/ lsad_channel > MAX_LSAD_CHANNEL
    \/ target > RF_MAX_POWER

\* The first tests of Sys_RFFE_SetTXPower: the channel, then the target.
InvalidSetting(target, lsad_channel) ==
    \/ lsad_channel > MAX_LSAD_CHANNEL
    \/ target > RF_MAX_POWER
    \/ target < RF_MIN_POWER

\* The test with the amplifier requested taken into account for every target.
NoVDDPAFirst_HonourPaEn(target, pa_en) ==
    ~pa_en /\ target <= RF_MAX_POWER_NO_VDDPA

\* The test that sends a valid target to the path without the amplifier.
NoVDDPAFirst(target, pa_en) ==
    \/ ~pa_en /\ target <= RF_MAX_POWER_NO_VDDPA /\ target > 0
    \/ target <= 0

\* The registers with the amplifier in use, as Sys_RFFE_SetTXPower_VDDPA
\* leaves them, and with the amplifier off.
RffeRegs(pa, samples) ==
    [ VDDRF_VTRIM    |-> IF pa THEN 20 ELSE 21,
      VDDPA_CTRL     |-> [initial_trim |-> "VDDPA_INITIAL_TRIM_1P10V",
                          sw |-> IF pa THEN "VDDPA_SW_HIZ" ELSE "VDDPA_SW_VDDRF",
                          isense |-> "VDDPA_ISENSE_DISABLE",
                          enable |-> "VDDPA_DISABLE",
                          vtrim |-> IF pa THEN 33 ELSE 34],
      DYNAMIC_CTRL   |-> IF pa THEN "DYNAMIC_CTRL_ENABLE_BYTE"
                               ELSE "DYNAMIC_CTRL_DISABLE_BYTE",
      SW_CTRL_DELAY  |-> IF pa THEN SW_CTRL_DELAY_3_BYTE ELSE 0,
      RAMPUP_DELAY   |-> IF pa THEN RAMPUP_DELAY_3_BYTE ELSE 0,
      DISABLE_DELAY  |-> IF pa THEN DISABLE_DELAY_3_BYTE ELSE 0,
      BIAS_0_IQ_RXTX |-> IF pa THEN PA_ENABLE_BIAS_SETTING ELSE PA_DISABLE_BIAS_SETTING,
      PA_PWR         |-> IF pa THEN 8 ELSE 13,
      LSAD_CFG       |-> {"LSAD_NORMAL", "LSAD_PRESCALE_1280H"},
      LSAD_INPUT_SEL |-> [ch \in 0..MAX_LSAD_CHANNEL |-> {"LSAD_POS_INPUT_VBAT", "LSAD_NEG_INPUT_GND"}],
      AOUT_CTRL      |-> [test_aout |-> "AOUT_VSSA", aout_to_gpio |-> "AOUT_NOT_CONNECTED_TO_GPIO"],
      LSAD_DATA      |-> samples ]

\* Samples of the supply, the median of each being the least sample that
\* converts to 0, 49, 50, 1194, 1195, 1269, 1270 and 1500 mV: the values on
\* both sides of the margin and of the supply the targets 1 and 2 need.
RffeSamples ==
    { <<0, 0, 0>>, <<402, 0, 16383>>, <<410, 410, 0>>, <<9782, 9790, 0>>,
      <<16383, 9790, 9790>>, <<10396, 10404, 10396>>, <<10404, 10396, 12288>>,
      <<12288, 12288, 12288>> }

\* Trims of TRIM: vddpa[2].trim_voltage, vddrf[1].trim and the LSAD trim.
RffeTrims ==
    { [vddpa2 |-> 3, vddrf1 |-> 2, lf_offset |-> 0, lf_gain |-> 65536],
      [vddpa2 |-> 24, vddrf1 |-> 32, lf_offset |-> 0, lf_gain |-> 65536] }

RffeTargets == (RF_MIN_POWER - 1) .. (RF_MAX_POWER + 1) \cup {-128, 127}
RffeChannels == {0, 6, MAX_LSAD_CHANNEL, MAX_LSAD_CHANNEL + 1, 255}

InitRffe ==
    /\ cfg = TrimCfg
    /\ op = "idle"
    /\ retention = "none"
    /\ todo = << >>
    /\ log = << >>
    /\ \E pa \in BOOLEAN, samples \in RffeSamples : reg = RffeRegs(pa, samples)
    /\ \E g \in Garbage : ram = InitRam(g)
    /\ nvr \in RffeTrims
    /\ obs = InitObs

\* Sys_RFFE_SetTXPower(target, lsad_channel, pa_en) up to the call of the
\* first path, or to its return if the setting is invalid.
Call_Sys_RFFE_SetTXPower ==
    /\ op = "idle" /\ obs.res.fn = "none"
    /\ \E target \in RffeTargets, lsad_channel \in RffeChannels, pa_en \in BOOLEAN,
          ub \in ConversionOutcomes :
          LET invalid == InvalidSetting(target, lsad_channel)
          IN  /\ obs' = [obs EXCEPT !.res =
                            [fn |-> "Sys_RFFE_SetTXPower", target |-> target,
                             lsad_channel |-> lsad_channel, pa_en |-> pa_en,
                             ub |-> ub, pre |-> reg,
                             rffe_error |-> IF invalid THEN ERRNO_RFFE_INVALIDSETTING_ERROR
                                                       ELSE 0,
                             novddpa |-> [run |-> FALSE],
                             vddpa |-> [run |-> FALSE]]]
              /\ todo' = IF invalid THEN << S("RETURN") >>
                         ELSE IF NoVDDPAFirst(target, pa_en)
                              THEN << S("SetTXPower_NoVDDPA"), S("RETURN") >>
                              ELSE << S("SetTXPower_VDDPA"), S("RETURN") >>
    /\ op' = "Sys_RFFE_SetTXPower"
    /\ log' = << >>
    /\ UNCHANGED <<cfg, retention, reg, ram, nvr>>

\* rffe_error = Sys_RFFE_SetTXPower_NoVDDPA(target, lsad_channel), and the
\* test of the error that sends the call to the path with the amplifier.
Call_Sys_RFFE_SetTXPower_NoVDDPA ==
    /\ At("SetTXPower_NoVDDPA")
    /\ LET a == obs.res
           out == Sys_RFFE_SetTXPower_NoVDDPA(a.target, a.lsad_channel, reg, nvr, a.ub)
       IN  /\ reg' = out.reg
           /\ obs' = [obs EXCEPT !.res.rffe_error = out.error,
                                 !.res.novddpa = [run |-> TRUE, before |-> reg,
                                                  after |-> out.reg, error |-> out.error,
                                                  vcc |-> out.vcc,
                                                  measuring |-> out.measuring]]
           /\ log' = Append(log, Head(todo))
           /\ todo' = IF out.error = ERRNO_RFFE_VCC_INSUFFICIENT
                      THEN << S("SetTXPower_VDDPA") >> \o Tail(todo)
                      ELSE Tail(todo)
    /\ UNCHANGED <<cfg, op, retention, ram, nvr>>

\* rffe_error = or |= Sys_RFFE_SetTXPower_VDDPA(target, lsad_channel)
Call_Sys_RFFE_SetTXPower_VDDPA ==
    /\ At("SetTXPower_VDDPA")
    /\ LET a == obs.res
           out == Sys_RFFE_SetTXPower_VDDPA(a.target, a.lsad_channel, reg, nvr, a.ub)
       IN  /\ reg' = out.reg
           /\ obs' = [obs EXCEPT !.res.rffe_error =
                                     IF a.novddpa.run THEN BitOr(a.rffe_error, out.error)
                                                      ELSE out.error,
                                 !.res.vddpa = [run |-> TRUE, before |-> reg,
                                                after |-> out.reg, error |-> out.error]]
    /\ Step
    /\ UNCHANGED <<cfg, op, retention, ram, nvr>>

NextRffe ==
    \/ Call_Sys_RFFE_SetTXPower
    \/ Call_Sys_RFFE_SetTXPower_NoVDDPA
    \/ Call_Sys_RFFE_SetTXPower_VDDPA
    \/ RETURN

SpecRffe == InitRffe /\ [][NextRffe]_vars

\* Sys_RFFE_SetTXPower was called and has returned.
SetTXPowerReturned == obs.res.fn = "Sys_RFFE_SetTXPower" /\ op = "idle"

\* The times a path was executed by the call.
Runs(k) == Cardinality({i \in DOMAIN log : log[i][1] = k})

\* The registers the functions write; LSAD_DATA is written by the converter.
RffeRegisters ==
    {"VDDRF_VTRIM", "VDDPA_CTRL", "DYNAMIC_CTRL", "SW_CTRL_DELAY", "RAMPUP_DELAY",
     "DISABLE_DELAY", "BIAS_0_IQ_RXTX", "PA_PWR", "LSAD_CFG", "LSAD_INPUT_SEL",
     "AOUT_CTRL"}

SameRegisters(r, s) == \A f \in RffeRegisters : r[f] = s[f]

\* The arguments of the call are an invalid setting: the channel is above
\* the last channel or the target outside -17 .. 6 dBm.
InvalidArguments ==
    /\ obs.res.fn = "Sys_RFFE_SetTXPower"
    /\ \/ obs.res.lsad_channel > 7
       \/ obs.res.target < -17
       \/ obs.res.target > 6

ValidArguments ==
    /\ obs.res.fn = "Sys_RFFE_SetTXPower"
    /\ obs.res.lsad_channel <= 7
    /\ obs.res.target >= -17
    /\ obs.res.target <= 6

\* C22: Sys_RFFE_SetTXPower called with an LSAD channel above the maximum
\* channel, or with a target outside -17 .. 6 dBm, returns InvalidSetting
\* and leaves every register unchanged: neither path is executed, at every
\* point of the call the registers equal those before the call, and the
\* value returned is ERRNO_RFFE_INVALIDSETTING_ERROR.
C22_InvalidSettingUntouched ==
    InvalidArguments =>
        /\ SameRegisters(reg, obs.res.pre)
        /\ ~Executed("SetTXPower_NoVDDPA")
        /\ ~Executed("SetTXPower_VDDPA")
        /\ SetTXPowerReturned => obs.res.rffe_error = ERRNO_RFFE_INVALIDSETTING_ERROR

C22_Witness ==
    /\ SetTXPowerReturned
    /\ obs.res.lsad_channel = 8
    /\ obs.res.target = 0
    /\ obs.res.rffe_error = ERRNO_RFFE_INVALIDSETTING_ERROR
    /\ obs.res.pre.DYNAMIC_CTRL = "DYNAMIC_CTRL_ENABLE_BYTE"

\* The path the call executed first.
FirstPath == IF log = << >> THEN "none" ELSE log[1][1]

\* The cases the path without the amplifier is stated to be attempted in.
NoPaStated ==
    \/ obs.res.target <= 0
    \/ obs.res.target > 0 /\ obs.res.target <= 2 /\ ~obs.res.pa_en

NoPaSucceeded ==
    /\ ValidArguments
    /\ obs.res.novddpa.run
    /\ obs.res.novddpa.error = 0

\* C24, as the code has it: a successful execution of the path without the
\* amplifier leaves the LSAD and AOUT configuration and the delays of the
\* dynamic VDDPA control at their values before the call, and writes,
\* besides the VDDRF trim and PA_PWR, the VDDPA control register (regulator
\* disabled, switch to VDDRF, trim of TRIM), the dynamic VDDPA control
\* (disabled) and the PA bias (amplifier disabled).
C24_NoPaWrites ==
    NoPaSucceeded =>
        /\ \A f \in {"LSAD_CFG", "LSAD_INPUT_SEL", "AOUT_CTRL", "SW_CTRL_DELAY",
                     "RAMPUP_DELAY", "DISABLE_DELAY"} : reg[f] = obs.res.pre[f]
        /\ reg.VDDPA_CTRL.enable = "VDDPA_DISABLE"
        /\ reg.VDDPA_CTRL.sw = "VDDPA_SW_VDDRF"
        /\ reg.VDDPA_CTRL.vtrim = nvr.vddpa2
        /\ reg.DYNAMIC_CTRL = "DYNAMIC_CTRL_DISABLE_BYTE"
        /\ reg.BIAS_0_IQ_RXTX = PA_DISABLE_BIAS_SETTING
        /\ obs.res.target > 0 => reg.PA_PWR = PA_PWR_BYTE_0DBM

C24_Witness ==
    /\ SetTXPowerReturned
    /\ NoPaSucceeded
    /\ obs.res.target = 0
    /\ ~obs.res.pa_en
    /\ obs.res.pre.DYNAMIC_CTRL = "DYNAMIC_CTRL_ENABLE_BYTE"
    /\ reg.DYNAMIC_CTRL = "DYNAMIC_CTRL_DISABLE_BYTE"
    /\ obs.res.pre.VDDPA_CTRL.sw = "VDDPA_SW_HIZ"
    /\ reg.VDDPA_CTRL.sw = "VDDPA_SW_VDDRF"

\* C24 as stated: a successful execution of the path without the amplifier
\* writes only the VDDRF trim and PA_PWR, the VDDPA control register and
\* the dynamic VDDPA control keeping their values of before the call.
C24_OnlyVddrfAndPaPwr ==
    NoPaSucceeded =>
        \A f \in RffeRegisters \ {"VDDRF_VTRIM", "PA_PWR"} : reg[f] = obs.res.pre[f]

\* The amplifier is enabled: the bias setting of the enabled amplifier is
\* written and the dynamic VDDPA control enabled.
PaEnabled ==
    /\ reg.BIAS_0_IQ_RXTX = PA_ENABLE_BIAS_SETTING
    /\ reg.DYNAMIC_CTRL = "DYNAMIC_CTRL_ENABLE_BYTE"

PaDisabled ==
    /\ reg.BIAS_0_IQ_RXTX = PA_DISABLE_BIAS_SETTING
    /\ reg.DYNAMIC_CTRL = "DYNAMIC_CTRL_DISABLE_BYTE"

\* The supply was measured and found sufficient, or was not needed.
VccSufficient ==
    obs.res.novddpa.run /\ obs.res.novddpa.error # ERRNO_RFFE_VCC_INSUFFICIENT

\* C25: Sys_RFFE_SetTXPower honours pa_en for every valid target: with
\* pa_en set the call ends with the amplifier enabled, and with pa_en clear
\* and a target of at most 2 dBm with sufficient VCC it ends with the
\* amplifier disabled.
C25_HonoursPaEn ==
    (SetTXPowerReturned /\ ValidArguments) =>
        /\ obs.res.pa_en => PaEnabled
        /\ (~obs.res.pa_en /\ obs.res.target <= 2 /\ VccSufficient) => PaDisabled

\* The part of C25 the code has: pa_en set and a positive target, or pa_en
\* clear.
PaEnHonouredAboveZero ==
    (SetTXPowerReturned /\ ValidArguments) =>
        /\ (obs.res.pa_en /\ obs.res.target > 0) => PaEnabled
        /\ (~obs.res.pa_en /\ obs.res.target <= 2 /\ VccSufficient) => PaDisabled

\* The call went to the path without the amplifier with a positive target
\* and the supply measured is below the VDDRF required, 1070 mV and 75 mV
\* for each dBm, plus the margin of 50 mV.
VccTooLow ==
    /\ ValidArguments
    /\ obs.res.target > 0
    /\ obs.res.novddpa.run
    /\ obs.res.novddpa.vcc - 50 < 1070 + 75 * obs.res.target

\* What C26 states of the call.
FallsBack ==
    /\ obs.res.novddpa.error = ERRNO_RFFE_VCC_INSUFFICIENT
    /\ SameRegisters(obs.res.novddpa.after, obs.res.novddpa.before)
    /\ SetTXPowerReturned =>
          /\ Runs("SetTXPower_VDDPA") = 1
          /\ Kinds(log) = << "SetTXPower_NoVDDPA", "SetTXPower_VDDPA", "RETURN" >>
          /\ obs.res.vddpa.before = obs.res.novddpa.after
          /\ reg.VDDPA_CTRL.sw = "VDDPA_SW_HIZ"
          /\ reg.DYNAMIC_CTRL = "DYNAMIC_CTRL_ENABLE_BYTE"
          /\ reg.BIAS_0_IQ_RXTX = PA_ENABLE_BIAS_SETTING
          /\ obs.res.rffe_error = BitOr(ERRNO_RFFE_VCC_INSUFFICIENT, obs.res.vddpa.error)
          /\ obs.res.rffe_error = ERRNO_RFFE_VCC_INSUFFICIENT

\* C26: for a positive target routed to the path without the amplifier
\* with the measured VCC too low for the required VDDRF plus margin, the
\* attempt returns VccInsufficient with every register as before the
\* attempt, Sys_RFFE_SetTXPower then executes the path with the amplifier
\* exactly once, and the mask returned is VccInsufficient OR-ed with the
\* result of that path.
C26_VccInsufficientFallback == VccTooLow => FallsBack

\* The same for the supplies of at least the margin.
FallbackAboveMargin ==
    (VccTooLow /\ obs.res.novddpa.vcc >= VCC_VDDRF_MARGIN) => FallsBack

FallbackReached ==
    /\ SetTXPowerReturned
    /\ VccTooLow
    /\ obs.res.novddpa.vcc = 1269
    /\ obs.res.target = 2
    /\ FallsBack
    /\ obs.res.novddpa.measuring.AOUT_CTRL.test_aout = "AOUT_VCC"

(***************************************************************************)
(* Sys_RFFE_GetMedian called on three samples of the converter.            *)
(***************************************************************************)
MedianValues == {0, 1, 2, 9790, 16383}

InitMedian ==
    /\ cfg = TrimCfg
    /\ op = "idle"
    /\ retention = "none"
    /\ todo = << >>
    /\ log = << >>
    /\ \E a \in MedianValues, b \in MedianValues, c \in MedianValues :
          reg = RffeRegs(FALSE, <<a, b, c>>)
    /\ \E g \in Garbage : ram = InitRam(g)
    /\ nvr \in RffeTrims
    /\ obs = InitObs

Call_Sys_RFFE_GetMedian ==
    /\ op = "idle" /\ obs.res.fn = "none"
    /\ obs' = [obs EXCEPT !.res =
                  [fn |-> "Sys_RFFE_GetMedian", a |-> reg.LSAD_DATA[1],
                   b |-> reg.LSAD_DATA[2], c |-> reg.LSAD_DATA[3],
                   ret |-> Sys_RFFE_GetMedian(reg.LSAD_DATA[1], reg.LSAD_DATA[2],
                                              reg.LSAD_DATA[3])]]
    /\ UNCHANGED <<cfg, op, retention, todo, log, reg, ram, nvr>>

NextMedian == Call_Sys_RFFE_GetMedian
SpecMedian == InitMedian /\ [][NextMedian]_vars

MedianTaken == obs.res.fn = "Sys_RFFE_GetMedian"

\* m is the middle-ranked value of the sequence s of three values: it is one
\* of them, at least two of them are not above it and at least two not
\* below it.
MiddleRanked(m, s) ==
    /\ \E i \in 1..3 : s[i] = m
    /\ Cardinality({i \in 1..3 : s[i] <= m}) >= 2
    /\ Cardinality({i \in 1..3 : s[i] >= m}) >= 2

\* C27: Sys_RFFE_GetMedian(a, b, c) returns the middle-ranked of its three
\* inputs for every triple: the result is the same under all six
\* permutations of the arguments, and with duplicates among the inputs it
\* is the true median.
C27_Median ==
    MedianTaken =>
        LET s == << obs.res.a, obs.res.b, obs.res.c >>
        IN  /\ MiddleRanked(obs.res.ret, s)
            /\ \A p \in Permutations(1..3) :
                  Sys_RFFE_GetMedian(s[p[1]], s[p[2]], s[p[3]]) = obs.res.ret

C27_Witness ==
    /\ MedianTaken
    /\ obs.res.a = 9790 /\ obs.res.b = 16383 /\ obs.res.c = 0
    /\ obs.res.ret = 9790

\* The case of C27 with duplicates: the largest value once, the least twice.
MedianOfDuplicates ==
    /\ MedianTaken
    /\ obs.res.a = 16383 /\ obs.res.b = 1 /\ obs.res.c = 1
    /\ obs.res.ret = 1

(***************************************************************************)
(* Sentinel records in the lookups of Sys_Trim_GetTrim.                    *)
(***************************************************************************)
\* The call examined at least one record and the last record of the table,
\* the one examined when the scan ends without a match, is a sentinel.
LastIsSentinel == nvr.table # << >> /\ ~NonSentinel(nvr.table[Len(nvr.table)])

\* C28: Sys_Trim_GetTrim returns InvalidTrim when the record it examines is
\* itself a sentinel (0x00000000 or 0xFFFFFFFF) and no record matches, and
\* NoTrimFound only when the scan of non-sentinel records is exhausted; a
\* sentinel record is never treated as a match and never reported as
\* NoTrimFound or NoError.
C28_SentinelInvalidTrim ==
    (Looked /\ nvr.table # << >>) =>
        LET t == obs.res.trim_target
        IN  /\ (Matching(t) = {} /\ LastIsSentinel) =>
                   obs.res.ret = {"ERROR_INVALID_TRIM"}
            /\ obs.res.ret = {"ERROR_NO_TRIM_FOUND"} =>
                   (Matching(t) = {} /\ ~LastIsSentinel)
            /\ obs.res.ret = ERROR_NO_ERROR => Matching(t) # {}

\* What the code has instead: a lookup that examines a record never returns
\* InvalidTrim, the value set for a sentinel being overwritten by the
\* comparison of the last branch.
InvalidTrimNeverReturned ==
    (Looked /\ nvr.table # << >>) => obs.res.ret # {"ERROR_INVALID_TRIM"}

\* A table that ends in a sentinel is reported as NoTrimFound.
SentinelReportedNotFound ==
    /\ Looked
    /\ LastIsSentinel
    /\ Matching(obs.res.trim_target) = {}
    /\ obs.res.ret = {"ERROR_NO_TRIM_FOUND"}

(***************************************************************************)
(* The public entry points of the trim library called with a null region   *)
(* or table pointer (trim.c, trim_vddif.c).  Every entry point but         *)
(* Sys_Trim_CheckCRC returns ERROR_NULL from its first test, or, in        *)
(* Sys_Trim_GetLSADTrim, skips the branches that read and write.           *)
(* Sys_Trim_CheckCRC assigns ERROR_NULL to ret_val and goes on             *)
(* (trim.c:407-410): it reads the checksum and the words through the null  *)
(* pointer, which is undefined; the read either faults, and the call does  *)
(* not return, or delivers what the memory holds from address 0 on.  In    *)
(* this specification nvr is that memory.                                  *)
(***************************************************************************)
PointerEntryPoints ==
    { "Sys_Trim_LoadTrims", "Sys_Trim_VerifyTrims", "Sys_Trim_CheckCRC",
      "Sys_Trim_GetTrim", "Sys_Trim_GetLSADTrim", "Sys_Trim_LoadBandgap",
      "Sys_Trim_LoadDCDC", "Sys_Trim_LoadVDDC", "Sys_Trim_LoadVDDM",
      "Sys_Trim_LoadVDDPA", "Sys_Trim_LoadVDDRF", "Sys_Trim_LoadVDDIF",
      "Sys_Trim_LoadVDDFLASH", "Sys_Trim_LoadRCOSC", "Sys_Trim_LoadRCOSC32",
      "Sys_Trim_LoadThermistor" }

NullReadOutcomes == {"fault", "read"}

\* Sys_Trim_CheckCRC(0): ret_val = ERROR_NULL, then the body of the function.
CheckCRC_Null(at_zero, outcome, r) ==
    IF outcome = "fault"
    THEN [returned |-> FALSE, ret |-> {"ERROR_NULL"}, reg |-> r, read |-> TRUE,
          crc |-> FALSE]
    ELSE [returned |-> TRUE, ret |-> Sys_Trim_CheckCRC(at_zero), reg |-> r,
          read |-> TRUE, crc |-> TRUE]

\* The entry point fn called with a null pointer on the registers r.
CalledWithNull(fn, at_zero, outcome, r) ==
    CASE fn = "Sys_Trim_CheckCRC" -> CheckCRC_Null(at_zero, outcome, r)
      [] fn = "Sys_Trim_LoadTrims" ->
            LET out == Sys_Trim_LoadTrims(NULL_POINTER, CHOOSE t \in Targets1 : TRUE,
                                          CHOOSE t \in Targets2 : TRUE, r)
            IN  [returned |-> TRUE, ret |-> out.ret, reg |-> out.reg,
                 read |-> out.calls # << >>, crc |-> out.calls # << >>]
      [] OTHER ->
            [returned |-> TRUE, ret |-> {"ERROR_NULL"}, reg |-> r, read |-> FALSE,
             crc |-> FALSE]

\* Memory from address 0 on: erased, cleared, and holding words that carry
\* their own checksum.
AtZeroRegions ==
    { [words |-> [i \in 1..RegionWords |-> MAX_32_BIT], engine |-> "CRC_32",
       CHECKSUM |-> MAX_32_BIT],
      [words |-> [i \in 1..RegionWords |-> MIN_32_BIT], engine |-> "CRC_CCITT",
       CHECKSUM |-> MIN_32_BIT],
      WrittenWith("CRC_32", [i \in 1..RegionWords |-> <<75, 18>>]),
      WrittenWith("CRC_CCITT", [i \in 1..RegionWords |-> <<75, 18>>]) }

InitNull ==
    /\ cfg = TrimCfg
    /\ op = "idle"
    /\ retention = "none"
    /\ todo = << >>
    /\ log = << >>
    /\ \E vtrim \in {7}, vtor \in VTORs, buck \in BOOLEAN :
          reg = [InitReg(FALSE, vtrim, [VTRIM |-> vtrim, BUCK |-> buck], vtor)
                    EXCEPT !.VDDC_STANDBY = vtrim, !.VDDM_STANDBY = vtrim,
                           !.RC_FTRIM = vtrim]
    /\ \E g \in Garbage : ram = InitRam(g)
    /\ nvr \in AtZeroRegions
    /\ obs = InitObs

Call_WithNull ==
    /\ op = "idle" /\ obs.res.fn = "none"
    /\ \E fn \in PointerEntryPoints, outcome \in NullReadOutcomes :
          LET out == CalledWithNull(fn, nvr, outcome, reg)
          IN  /\ reg' = out.reg
              /\ obs' = [obs EXCEPT !.res =
                            [fn |-> fn, null |-> TRUE, returned |-> out.returned,
                             ret |-> out.ret, read |-> out.read, crc |-> out.crc,
                             pre |-> reg]]
    /\ UNCHANGED <<cfg, op, retention, todo, log, ram, nvr>>

NextNull == Call_WithNull
SpecNull == InitNull /\ [][NextNull]_vars

NullCalled == obs.res.fn \in PointerEntryPoints /\ "null" \in DOMAIN obs.res

\* What C29 states of a call.
NullRejected ==
    /\ obs.res.returned
    /\ obs.res.ret = {"ERROR_NULL"}
    /\ ~obs.res.read
    /\ ~obs.res.crc
    /\ reg = obs.res.pre

\* C29: every public entry point of the trim loader that takes a region or
\* table pointer, given a null pointer, returns the Null error without
\* reading through the pointer, without running the CRC engine and without
\* writing any trim register.
C29_NullPointer == NullCalled => NullRejected

\* The same for every entry point but Sys_Trim_CheckCRC.
NullRejectedButByCheckCRC ==
    (NullCalled /\ obs.res.fn # "Sys_Trim_CheckCRC") => NullRejected

\* Sys_Trim_CheckCRC(0) returns NoError where the memory at address 0 holds
\* words that carry their checksum.
CheckCRC_NullAccepted ==
    /\ NullCalled
    /\ obs.res.fn = "Sys_Trim_CheckCRC"
    /\ obs.res.returned
    /\ obs.res.ret = ERROR_NO_ERROR
    /\ obs.res.crc

(***************************************************************************)
(* Order of the copies and the waits of the snapshot taken before sleep    *)
(* (power_modes.c:521-558, 583-603).                                       *)
(***************************************************************************)
\* The statements of _Sys_PowerModes_Sleep_BLERegistersConfig_Enter.
SnapshotKinds ==
    { "RF_BANK_SELECT", "DMA_START", "WAIT_DMA_COMPLETE", "DMA_STOP",
      "WATCHDOG_REFRESH", "WAIT_BB_LOW_POWER_CLK", "BB_IMAGE_DEEPSLCNTL",
      "WAIT_BB_OSC_DISABLED" }

\* The statements that started a copy, and those that started the copy of
\* the baseband registers.
CopyStarts == { i \in DOMAIN log : log[i][1] = "DMA_START" }
BbCopyStarts == { i \in CopyStarts : log[i][2] = "BB_TO_IMAGE" }

\* Some statement of kind k was executed between the statements i and j.
Between(k, i, j) == \E n \in DOMAIN log : i < n /\ n < j /\ log[n][1] = k

\* C30: in the snapshot routine that runs before sleep, the copy of the
\* baseband registers is started only after the baseband status was seen
\* on the low-power clock; the routine returns only after the
\* oscillator-enabled status was seen clear; and the three copies run one
\* after another on the one DMA channel, each started only after the
\* completion flag of the previous one was seen and with the channel
\* stopped.
C30_SnapshotOrder ==
    op \in {"Sleep_Enter", "Standby_Enter"} =>
        /\ \A i \in BbCopyStarts : Between("WAIT_BB_LOW_POWER_CLK", 0, i)
        /\ \A i \in BbCopyStarts : \A j \in DOMAIN log :
              (j > i /\ log[j][1] \notin SnapshotKinds) =>
                  Between("WAIT_BB_OSC_DISABLED", i, j)
        /\ \A i \in CopyStarts : \A j \in CopyStarts :
              i < j => Between("WAIT_DMA_COMPLETE", i, j) /\ Between("DMA_STOP", i, j)
        /\ At("DMA_START") => ~reg.DMA.enabled
        /\ (At("WAIT_BB_LOW_POWER_CLK") \/ At("WAIT_BB_OSC_DISABLED")) =>
              ~reg.DMA.enabled
        /\ \A i \in BbCopyStarts :
              \E a \in CopyStarts, b \in CopyStarts :
                 /\ a < b /\ b < i
                 /\ log[a][2] = "RF_TO_IMAGE_2"
                 /\ log[b][2] = "RF_TO_IMAGE_1"

\* The snapshot has returned and the processor is at the sleep instruction:
\* the three copies were made and both waits have ended.
C30_Witness ==
    /\ op \in {"Sleep_Enter", "Standby_Enter"}
    /\ At("WFI")
    /\ Cardinality(CopyStarts) = 3
    /\ BbCopyStarts # {}
    /\ Executed("WAIT_BB_OSC_DISABLED")
    /\ ~reg.BBIF_STATUS.OSC_ENABLED
    /\ reg.BBIF_STATUS.CLK = "LOW_POWER_CLK"

(***************************************************************************)
(* Interrupt handlers that write the radio registers.  The entry functions *)
(* leave PRIMASK as their caller set it while the snapshot runs, and       *)
(* power_modes.c:107-114 (393-401 for standby) clears it after the         *)
(* snapshot; an enabled line can be served wherever PRIMASK is clear, and  *)
(* the handlers of the BLE stack and of the application write the RF and   *)
(* baseband registers.                                                     *)
(***************************************************************************)
\* Writes of radio registers by interrupt handlers during one call.
MaxIsrWrites == 1

IsrWrites == { i \in DOMAIN log : log[i][1] = "ISR_WRITE" }

\* An enabled interrupt is taken and its handler writes one word of an RF
\* bank or of the baseband block; the write is recorded in the log.
ISR_WriteRadio ==
    /\ op \notin {"idle", "reset", "fault"}
    /\ ~reg.PRIMASK
    /\ reg.NVIC_EN # {}
    /\ RF_ACCESS_BITS \subseteq reg.RF_ACCESS_CFG
    /\ Cardinality(IsrWrites) < MaxIsrWrites
    /\ \E block \in {"0", "1", "BB"}, i \in 1..BankWords, v \in RegValues :
          /\ reg' = IF block = "BB" THEN [reg EXCEPT !.BB[i] = v]
                                    ELSE [reg EXCEPT !.RF[block][i] = v]
          /\ log' = Append(log, SA("ISR_WRITE", block))
    /\ obs' = [obs EXCEPT !.isr_masked = @ \/ MaskedSection]
    /\ UNCHANGED <<cfg, op, retention, todo, ram, nvr>>

IsrCfgSet == { c \in BleCfgSet : c.vddt_ret }

InitIsr ==
    /\ cfg \in IsrCfgSet
    /\ op = "idle"
    /\ retention = "none"
    /\ todo = << >>
    /\ log = << >>
    /\ \E bb \in [1..BankWords -> RegValues], vtor \in VTORs :
          reg = [InitReg(TRUE, 0, LowVcc, vtor) EXCEPT !.BB = bb]
    /\ \E g \in Garbage : ram = InitRam(g)
    /\ nvr \in NvrSet
    /\ obs = InitObs

NextIsr == NextBle \/ ISR_WriteRadio

SpecIsr == InitIsr /\ [][NextIsr]_vars

\* The processor is at the sleep instruction of Sleep_Enter or Standby_Enter
\* of a device with the baseband.
AtSleepWithImages ==
    cfg.ble_present /\ op \in {"Sleep_Enter", "Standby_Enter"} /\ At("WFI")
\* The three images hold what the registers hold.
ImagesFresh ==
    /\ ram.rf_registers_image_1 = reg.RF["0"]
    /\ ram.rf_registers_image_2 = reg.RF["1"]
    /\ ram.bb_registers_image = reg.BB
\* A handler wrote a radio register after the snapshot had completed.
IsrAfterSnapshot ==
    \E i \in IsrWrites : i > Last("WAIT_BB_OSC_DISABLED") /\ Executed("WAIT_BB_OSC_DISABLED")

\* C31: with ble_present, the RF/baseband register image that is restored on
\* wake equals the contents of those registers at the moment the sleep
\* instruction executes: no interrupt service routine runs and modifies RF or
\* baseband registers between the completion of the snapshot and the sleep
\* instruction.
C31_ImageFreshAtSleep ==
    AtSleepWithImages => ImagesFresh /\ ~IsrAfterSnapshot

\* What holds of the code: from __disable_irq to the sleep instruction no
\* handler runs, and images that no handler has written behind are fresh.
NoIsrFromMaskToSleep ==
    AtSleepWithImages => \A i \in IsrWrites : i < First("DISABLE_IRQ")
ImagesFreshWithoutIsr ==
    AtSleepWithImages /\ IsrWrites = {} => ImagesFresh
\* A handler wrote a baseband register in the window between the snapshot
\* and __disable_irq, and the processor has reached the sleep instruction
\* with the stale image.
StaleImageAtSleep ==
    /\ AtSleepWithImages /\ IsrAfterSnapshot
    /\ ram.bb_registers_image # reg.BB

\* C31 (as amended): interrupts are masked from the __disable_irq of the
\* entry function to the sleep instruction, and not before: a handler that
\* writes RF or baseband registers runs, if at all, before that
\* __disable_irq (during the snapshot or in the window the function opens
\* behind it), and the images equal the registers at the sleep instruction
\* whenever no handler has written them.
C31_MaskedFromDisableToSleep ==
    NoIsrFromMaskToSleep /\ ImagesFreshWithoutIsr

(***************************************************************************)
(* The baseband timer wakeup pulse of the wake-init routines               *)
(* (power_modes.c:647-666, 711-730).                                       *)
(***************************************************************************)
PulseKinds == {"BB_WAKEUP_SET", "WAIT_BB_MASTER_CLK", "BB_WAKEUP_CLEAR",
               "WAKEUP_BB_TIMER_CLEAR"}
\* The four steps of the pulse have been performed, in their order.
PulseDone ==
    /\ \A k \in PulseKinds : Executed(k)
    /\ First("BB_WAKEUP_SET") < First("WAIT_BB_MASTER_CLK")
    /\ First("WAIT_BB_MASTER_CLK") < First("BB_WAKEUP_CLEAR")
    /\ First("BB_WAKEUP_CLEAR") < First("WAKEUP_BB_TIMER_CLEAR")
    /\ "BB_WAKEUP" \notin reg.BBIF_CTRL
    /\ "WAKEUP_BB_TIMER" \notin reg.WAKEUP_CTRL
PulseStarted == \E k \in PulseKinds : Executed(k)
\* The sleep wake-init (called by Sleep_Enter or by the RAM wake handler) and
\* the standby wake-init have run to their end.
SleepWakeInitEnd ==
    \/ op = "Sleep_Enter" /\ At("RETURN")
    \/ InWakeHandler /\ (At("CALL_APP_ADDR") \/ At("HALT"))
StandbyWakeInitEnd == op = "Standby_Enter" /\ At("RETURN")
\* The restore of the baseband image, the last of the three, is complete at
\* position i of the log.
RestoredBefore(i) ==
    \E a \in WakeInitStart..(i - 1) :
        /\ log[a] = SA("DMA_START", "IMAGE_TO_BB")
        /\ \E b \in (a + 1)..(i - 1) : log[b][1] = "DMA_STOP"
PulseAfterRestore ==
    op \in {"Sleep_Enter", "Standby_Enter", "WakeupFromRAM"} =>
        \A k \in PulseKinds : Executed(k) => RestoredBefore(First(k))

\* C32 (as amended): the sleep wake-init performs the baseband timer wakeup
\* pulse (set BB_WAKEUP, wait for the master clock, clear BB_WAKEUP,
\* acknowledge the sticky BB-timer wake flag) if and only if the VDDT
\* retention regulator is enabled and ble_present is set; the standby
\* wake-init performs it if and only if ble_present is set, whether or not
\* the VDDT retention regulator is enabled; in both the pulse is performed
\* only after the RF/baseband register restore has completed.
C32_PulseCondition ==
    /\ SleepWakeInitEnd =>
          (PulseDone <=> reg.VDDRET_CTRL.VDDTRET /\ cfg.ble_present)
    /\ SleepWakeInitEnd /\ ~PulseDone => ~PulseStarted
    /\ StandbyWakeInitEnd => (PulseDone <=> cfg.ble_present)
    /\ StandbyWakeInitEnd /\ ~PulseDone => ~PulseStarted
    /\ PulseAfterRestore

\* Standby has woken a device whose VDDT retention regulator is disabled,
\* and the pulse has been performed.
C32_Witness ==
    /\ StandbyWakeInitEnd /\ obs.wfi = "collapsed"
    /\ PulseDone /\ ~reg.VDDRET_CTRL.VDDTRET

\* C32 (as stated): in both the sleep wake-init and the standby wake-init the
\* pulse is performed if and only if the VDDT retention regulator is enabled
\* and ble_present is set, and only after the register restore has completed.
C32_AsStated ==
    /\ SleepWakeInitEnd \/ StandbyWakeInitEnd =>
          (PulseDone <=> reg.VDDRET_CTRL.VDDTRET /\ cfg.ble_present)
    /\ PulseAfterRestore

\* The sleep wake-init has performed the pulse after a power collapse.
SleepPulseDone ==
    SleepWakeInitEnd /\ obs.wfi = "collapsed" /\ PulseDone /\ reg.VDDRET_CTRL.VDDTRET

(***************************************************************************)
(* The busy-wait loops.  Each wait statement is a loop with an empty body  *)
(* that tests a flag the hardware sets (power_modes.c:539, 554, 598, 614,  *)
(* 657, 678, 721; clock.h:94, 109): while the flag is not asserted the     *)
(* processor goes round the loop, and the statement completes at the test  *)
(* that finds the flag asserted.                                           *)
(***************************************************************************)
BleWaitKinds == {"WAIT_DMA_COMPLETE", "WAIT_BB_LOW_POWER_CLK", "WAIT_BB_OSC_DISABLED",
                 "WAIT_BB_MASTER_CLK"}
WaitKinds == BleWaitKinds \cup {"WAIT_CLOCK_PRESENT", "WAIT_VDDRF_READY",
                                "WAIT_CLK_DIG_READY"}
\* The condition that ends the loop of the wait statement k.
WaitOver(k) ==
    CASE k = "WAIT_DMA_COMPLETE" -> reg.DMA.complete
      [] k = "WAIT_BB_LOW_POWER_CLK" -> reg.BBIF_STATUS.CLK # "MASTER_CLK"
      [] k = "WAIT_BB_OSC_DISABLED" -> ~reg.BBIF_STATUS.OSC_ENABLED
      [] k = "WAIT_BB_MASTER_CLK" -> reg.BBIF_STATUS.CLK = "MASTER_CLK"
      [] k = "WAIT_CLOCK_PRESENT" -> reg.CLK_DET.CLOCK_PRESENT
      [] k = "WAIT_VDDRF_READY" -> reg.VDDRF_READY
      [] k = "WAIT_CLK_DIG_READY" -> reg.CLK_DIG_READY
InWait(kinds) == todo # << >> /\ Head(todo)[1] \in kinds
\* The processor is in a busy-wait whose flag is not asserted.
Waiting(kinds) == InWait(kinds) /\ ~WaitOver(Head(todo)[1])

\* One turn of a busy-wait loop whose flag is not asserted: the body is
\* empty, nothing is written.
BusyWait_Spin ==
    /\ Waiting(WaitKinds)
    /\ obs' = [obs EXCEPT !.spin = ~@, !.wdg_fed = FALSE]
    /\ UNCHANGED <<cfg, op, retention, todo, log, reg, ram, nvr>>

\* A device with and without the baseband, on the crystal and on the RC boot
\* path, with the radio on at the call.
WaitCfgSet ==
    { c \in CfgSet : /\ c.boot_cfg \in {"BOOT_CUSTOM", "BOOT_FLASH_XTAL_DISABLE"}
                     /\ c.vddt_ret = c.ble_present
                     /\ c.app_gpio_config = ~c.app_addr }

InitWait == InitFrom(WaitCfgSet, {TRUE}, {0}, {LowVcc}, Garbage, NvrSet)

NextWait == Next \/ BusyWait_Spin

\* The processor keeps executing; nothing is assumed of the hardware flags.
SpecWait == InitWait /\ [][NextWait]_vars /\ WF_vars(NextWait)

\* C33: in each busy-wait of the RF/baseband save and restore sequences (wait
\* for DMA completion, for the baseband low-power clock, for
\* oscillator-enabled to clear, for the master clock after the wakeup pulse)
\* the watchdog is refreshed repeatedly for as long as the wait lasts: if the
\* awaited flag is delayed indefinitely, the watchdog is refreshed infinitely
\* often.
C33_WaitsFeedWatchdog ==
    []<>(Waiting(BleWaitKinds) => obs.wdg_fed)

\* What holds of the code: the three waits on the baseband status are each
\* entered right behind one refresh of the watchdog; the wait for the DMA
\* completion has none.
RefreshedOnceBeforeBbWaits ==
    InWait(BleWaitKinds \ {"WAIT_DMA_COMPLETE"}) =>
        log # << >> /\ log[Len(log)][1] = "WATCHDOG_REFRESH"
\* The processor has gone round the loop of a baseband wait and the watchdog
\* has not been refreshed since.
SpinningUnfed ==
    Waiting(BleWaitKinds \ {"WAIT_DMA_COMPLETE"}) /\ ~obs.wdg_fed

(***************************************************************************)
(* Termination of the entry functions.  The processor executes the next    *)
(* statement whenever it can (a wake event included, which ends the wait   *)
(* primitive), and the hardware asserts a polled flag that is awaited.     *)
(***************************************************************************)
\* A step of the program: a statement is completed or a function is entered.
ProcessorStep == NextWait /\ <<op, todo>>' # <<op, todo>>
\* The hardware asserts the flag a busy-wait polls.
Hardware ==
    \/ HW_DMA_Transfer \/ HW_ClockPresent \/ HW_VDDRF_Ready \/ HW_ClkDigReady
    \/ HW_BB_LowPowerClk \/ HW_BB_OscDisabled \/ HW_BB_MasterClk

SpecFair ==
    InitWait /\ [][NextWait]_vars /\ WF_vars(ProcessorStep) /\ WF_vars(Hardware)

InEnter == op \in EnterOps
\* The entry function is at its return, behind its last __enable_irq.
EnterReturns == InEnter /\ At("RETURN") /\ ~reg.PRIMASK
\* The power mode keeps the processor state: the wake resumes the function.
ResumingMode ==
    \/ op = "Standby_Enter"
    \/ op = "Sleep_Enter" /\ retention = "SLEEP_CORE_RETENTION"
\* The wake from the power mode has reset the processor: the run continues
\* in the restarted application or in the RAM wake handler.
WokenByReset == op \in {"reset", "Wakeup_WithReset", "WakeupFromRAM"}
\* An Enter operation ends at its return statement or, in a mode that does
\* not keep the processor state, at the sleep instruction by the reset of
\* the wake.
EnterLeftByReturnOrReset ==
    [][(InEnter /\ op' # op) =>
          \/ At("RETURN") /\ op' = "idle"
          \/ At("WFI") /\ ~ResumingMode /\ WokenByReset']_vars
\* A busy-wait is left only at a test that finds its flag asserted.
WaitLeftOnlyOnFlag ==
    [][InWait(WaitKinds) /\ todo' # todo => WaitOver(Head(todo)[1])]_vars

\* C34 (as amended): under the fairness assumption that every polled hardware
\* flag (DMA complete, baseband clock status, clock-detector present, VDDRF
\* ready, crystal digital-ready) is eventually asserted and that a wake event
\* eventually occurs, Standby_Enter and Sleep_Enter with core retention
\* eventually return to the caller with interrupts enabled, and so does every
\* Enter operation whose wait primitive returns at once; an Enter operation
\* of sleep without core retention or of deep sleep that enters its power
\* mode does not return: the wake resets the processor.  If a polled flag is
\* never asserted the operation stays in that busy-wait forever, no loop
\* having a timeout or an alternative exit.
C34_Termination ==
    /\ (InEnter /\ ResumingMode) ~> EnterReturns
    /\ InEnter ~> (EnterReturns \/ WokenByReset)
    /\ [](EnterReturns => (ResumingMode \/ obs.wfi # "collapsed"))
    /\ EnterLeftByReturnOrReset
    /\ WaitLeftOnlyOnFlag

\* Standby of a device with the baseband has collapsed, woken, passed every
\* busy-wait and is at its return with interrupts enabled.
C34_Witness ==
    /\ op = "Standby_Enter" /\ EnterReturns /\ obs.wfi = "collapsed"
    /\ cfg.ble_present /\ XtalBoot(cfg)
    /\ \A k \in WaitKinds \ {"WAIT_BB_LOW_POWER_CLK", "WAIT_BB_OSC_DISABLED"} : Executed(k)
    /\ Executed("WAIT_BB_LOW_POWER_CLK") /\ Executed("WAIT_BB_OSC_DISABLED")

\* C34 (as stated): under the same fairness assumption every Enter operation
\* eventually returns to the caller with interrupts enabled; if a polled flag
\* is never asserted the operation stays in that busy-wait forever.
C34_AsStated ==
    /\ InEnter ~> EnterReturns
    /\ WaitLeftOnlyOnFlag

(***************************************************************************)
(* Re-entrant sleep entry.  An interrupt handler of the application may    *)
(* call Sys_PowerModes_Sleep_Enter itself; the handler runs on top of the  *)
(* interrupted function, whose remaining statements resume at the          *)
(* exception return.  restore_trim, vddc_trim_backup and                   *)
(* ACS_VCC_CTRL_backup (power_modes.c:52-54) are shared by all entries.    *)
(***************************************************************************)
\* Nested entries per call of the application.
MaxNested == 1

NestedEntries == { i \in DOMAIN log : log[i][1] = "ISR_ENTER" }

\* An enabled interrupt is taken while Sleep_Enter runs, and its handler
\* calls Sys_PowerModes_Sleep_Enter(p_sleep_mode_cfg, SLEEP_CORE_RETENTION).
ISR_NestedSleepEnter ==
    /\ op = "Sleep_Enter" /\ todo # << >>
    /\ ~reg.PRIMASK
    /\ reg.NVIC_EN # {}
    /\ Cardinality(NestedEntries) < MaxNested
    /\ LET body == Sleep_Enter_Body(cfg, "SLEEP_CORE_RETENTION")
       IN  todo' = SubSeq(body, 1, Len(body) - 1) \o << S("IRET") >> \o todo
    /\ log' = Append(log, S("ISR_ENTER"))
    /\ obs' = [obs EXCEPT !.isr_masked = @ \/ MaskedSection]
    /\ UNCHANGED <<cfg, op, retention, reg, ram, nvr>>
\* The exception return of the handler.
IRET == RegStmt("IRET", reg)

InitNest == InitFrom(CoreCfgSet, BOOLEAN, TrimValues, VccValues, Garbage, NvrSet)

NextNest == NextCore \/ ISR_NestedSleepEnter \/ IRET

SpecNest == InitNest /\ [][NextNest]_vars

\* A core-retention entry has taken its backup and has not yet reached its
\* restore.
BackupPending ==
    /\ op = "Sleep_Enter"
    /\ Last("IF_VDDC_BELOW_1P10V") > Last("IF_RESTORE_TRIM")
    /\ \E i \in DOMAIN todo : todo[i][1] = "IF_RESTORE_TRIM"
\* The statements between the last backup and the present belong to one
\* invocation: no handler was entered or left in between.
SameInvocation ==
    \A i \in (Last("IF_VDDC_BELOW_1P10V") + 1)..Len(log) :
        log[i][1] \notin {"ISR_ENTER", "IRET"}
BackupVars == <<ram.vddc_trim_backup, ram.ACS_VCC_CTRL_backup>>

UserClkConfig(userclk_freq, r) ==
    IF userclk_freq > r.SystemCoreClock /\ r.CLK_DIG_READY
    THEN LET userclk_div == (RFCLK_BASE_FREQ \div r.XTAL_PRESCALE) \div userclk_freq
         IN  [div |-> IF r.SystemCoreClock % userclk_freq = 0
                      THEN userclk_div - 1 ELSE userclk_div,
              src |-> "USRCLK_SRC_RFCLK"]
    ELSE [div |-> Divisor(r.SystemCoreClock, userclk_freq),
          src |-> "USRCLK_SRC_SYSCLK"]

\* RC oscillator frequencies of the system clock.
UserRcClocks == { 3000000, 12000000, 24000000 }
\* Values of the crystal prescaler byte.
UserPrescales == { 1, 2, 3, 7 }
\* USERCLK targets below, at and above the core clock, some dividing the
\* RF clock exactly and some not.
UserFreqs ==
    { 1000000, 3000000, 5000000, 8000000, 12000000, 16000000, 24000000,
      48000000, 50000000 }

InitUser ==
    /\ cfg = TrimCfg
    /\ op = "idle"
    /\ retention = "none"
    /\ todo = << >>
    /\ log = << >>
    /\ \E ready \in BOOLEAN, prescale \in UserPrescales,
          src \in {"RCCLK", "RFCLK"}, rc \in UserRcClocks :
          /\ src = "RFCLK" => ready
          /\ reg = [InitReg(ready, 0, LowVcc, 0) EXCEPT
                       !.SYS_CLKSRC = src,
                       !.XTAL_PRESCALE = prescale,
                       !.SystemCoreClock = IF src = "RFCLK"
                                           THEN RFCLK_BASE_FREQ \div prescale
                                           ELSE rc]
    /\ \E g \in Garbage : ram = InitRam(g)
    /\ nvr \in NvrSet
    /\ obs = InitObs

\* Sys_Clocks_DividerConfig(uartclk_freq, sensorclk_freq, userclk_freq)
Call_Sys_Clocks_DividerConfig_User ==
    /\ op = "idle" /\ obs.res.fn = "none"
    /\ reg.SystemCoreClock # 0
    /\ \E uartclk_freq \in {SLOWCLK_FREQ}, userclk_freq \in UserFreqs :
          LET r == Sys_Clocks_DividerConfig(uartclk_freq, reg)
              u == UserClkConfig(userclk_freq, reg)
          IN  /\ reg' = [r EXCEPT !.DIV_CFG =
                            [core |-> @.core, slowclk |-> @.slowclk,
                             bbclk |-> @.bbclk, uartclk |-> @.uartclk,
                             dcclk |-> @.dcclk,
                             userclk |-> u.div, usrclk_src |-> u.src]]
              /\ obs' = [obs EXCEPT !.res = [fn |-> "Sys_Clocks_DividerConfig",
                                             uartclk_freq |-> uartclk_freq,
                                             userclk_freq |-> userclk_freq]]
    /\ UNCHANGED <<cfg, op, retention, todo, log, ram, nvr>>

NextUser == Call_Sys_Clocks_DividerConfig_User
SpecUser == InitUser /\ [][NextUser]_vars

UserClkProgrammed ==
    /\ obs.res.fn = "Sys_Clocks_DividerConfig"
    /\ "userclk" \in DOMAIN reg.DIV_CFG
\* The request exceeds the core clock and the RF clock is digital-ready.
RfClkWanted ==
    obs.res.userclk_freq > reg.SystemCoreClock /\ reg.CLK_DIG_READY
\* The actual frequency of the selected source.
UserSrcFreq ==
    IF reg.DIV_CFG.usrclk_src = "USRCLK_SRC_RFCLK"
    THEN RFCLK_BASE_FREQ \div reg.XTAL_PRESCALE
    ELSE reg.SystemCoreClock

\* C36: Sys_Clocks_DividerConfig sources USERCLK from the RF clock if and
\* only if the requested user frequency exceeds the core clock and the RF
\* clock reports digital-ready, and from the system clock otherwise; in both
\* cases the divisor is floor(src/userFreq), decremented by one exactly when
\* the actual frequency src of the selected source (48 MHz divided by the
\* hardware prescaler byte for the RF clock) is an integer multiple of
\* userFreq, so that USERCLK never exceeds the request and equals it
\* whenever the selected source divides exactly.
C36_UserClkDivisor ==
    UserClkProgrammed =>
        LET user == obs.res.userclk_freq
            d == reg.DIV_CFG.userclk
        IN  /\ reg.DIV_CFG.usrclk_src = "USRCLK_SRC_RFCLK" <=> RfClkWanted
            /\ reg.DIV_CFG.usrclk_src \in {"USRCLK_SRC_RFCLK", "USRCLK_SRC_SYSCLK"}
            /\ DivisorAsStated(d, UserSrcFreq, user)
            /\ UserSrcFreq <= (d + 1) * user
            /\ UserSrcFreq % user = 0 => UserSrcFreq = (d + 1) * user

\* The parts of the sentence the code keeps: the choice of the source, the
\* divisor of the system-clock branch, and the upper bound of USERCLK.
UserClkWithinRequest ==
    UserClkProgrammed =>
        LET user == obs.res.userclk_freq
            d == reg.DIV_CFG.userclk
        IN  /\ reg.DIV_CFG.usrclk_src = "USRCLK_SRC_RFCLK" <=> RfClkWanted
            /\ reg.DIV_CFG.usrclk_src = "USRCLK_SRC_SYSCLK"
                  => DivisorAsStated(d, UserSrcFreq, user)
            /\ reg.DIV_CFG.usrclk_src = "USRCLK_SRC_RFCLK"
                  => IsFloor(d, UserSrcFreq, user)
            /\ UserSrcFreq <= (d + 1) * user

\* The RF clock is an exact multiple of the request and USERCLK is below it.
RfClkExactMissed ==
    /\ UserClkProgrammed
    /\ reg.DIV_CFG.usrclk_src = "USRCLK_SRC_RFCLK"
    /\ reg.SystemCoreClock = 3000000 /\ reg.XTAL_PRESCALE = 1
    /\ obs.res.userclk_freq = 16000000
    /\ reg.DIV_CFG.userclk = 3

(***************************************************************************)
(* Sys_Clocks_RCSystemClkConfig (clock.h:51-62) statement by statement:    *)
(* SYSCLK_SELECT above is the same function taken as one step.             *)
(***************************************************************************)
\* A switch that writes the clock source first and the flash delay after.
RCSystemClkConfig_DelayLast(src) ==
    << S("RCOSC_CTRL_WRITE"), SA("SYS_CFG_WRITE", src), S("FLASH_DELAY_MAX"),
       S("SYSTEM_CORE_CLOCK_UPDATE") >>
RCSystemClkConfig_Body(src) ==
    << S("FLASH_DELAY_MAX"), S("RCOSC_CTRL_WRITE"), SA("SYS_CFG_WRITE", src),
       S("SYSTEM_CORE_CLOCK_UPDATE") >>

\* FLASH->DELAY_CTRL = (... & ~SYSCLK_FREQ_Mask) | FLASH_DELAY_FOR_SYSCLK_48MHZ
FLASH_DELAY_MAX == RegStmt("FLASH_DELAY_MAX", [reg EXCEPT !.FLASH_DELAY = "48MHZ"])
\* ACS->RCOSC_CTRL = rc_cfg, the value Sys_Clocks_SystemClkConfig has read
\* from the same register.
RCOSC_CTRL_WRITE == RegStmt("RCOSC_CTRL_WRITE", reg)
\* CLK->SYS_CFG = cfg
SYS_CFG_WRITE ==
    /\ At("SYS_CFG_WRITE")
    /\ RegStmt("SYS_CFG_WRITE", [reg EXCEPT !.SYS_CLKSRC = Arg])
\* SystemCoreClockUpdate()
SYSTEM_CORE_CLOCK_UPDATE ==
    RegStmt("SYSTEM_CORE_CLOCK_UPDATE",
            [reg EXCEPT !.SystemCoreClock = CoreClock(reg),
                        !.FLASH_DELAY = FlashDelayFor(reg)])

\* Sys_Clocks_XTALClkConfig followed by the rest of
\* Sys_PowerModes_XTAL_ClockInit, the clock switch statement by statement.
XTAL_ClockInit_Steps ==
    << S("VDDRF_ENABLE"), S("WAIT_VDDRF_READY"), S("VDDPA_CONNECT_VDDRF"),
       S("RF_ENABLE"), S("XTAL_START"), S("XTAL_PRESCALER_WRITE"),
       S("WAIT_CLK_DIG_READY") >>
    \o RCSystemClkConfig_Body("RFCLK") \o << S("DIVIDER_CONFIG") >>

Sys_PowerModes_XTAL_ClockInit_Steps ==
    Call("none", "XTAL_ClockInit", XTAL_ClockInit_Steps \o << S("RETURN") >>, "none")
\* Sys_Clocks_SystemClkConfig(SYSCLK_CLKSRC_RCCLK)
Sys_Clocks_SystemClkConfig ==
    Call("none", "SystemClkConfig",
         RCSystemClkConfig_Body("RCCLK") \o << S("RETURN") >>, "none")

NextSwitch ==
    \/ Sys_PowerModes_XTAL_ClockInit_Steps \/ Sys_Clocks_SystemClkConfig
    \/ VDDRF_ENABLE \/ WAIT_VDDRF_READY \/ VDDPA_CONNECT_VDDRF \/ RF_ENABLE
    \/ XTAL_START \/ XTAL_PRESCALER_WRITE \/ WAIT_CLK_DIG_READY
    \/ FLASH_DELAY_MAX \/ RCOSC_CTRL_WRITE \/ SYS_CFG_WRITE
    \/ SYSTEM_CORE_CLOCK_UPDATE \/ DIVIDER_CONFIG
    \/ HW_VDDRF_Ready \/ HW_ClkDigReady
    \/ RETURN
SpecSwitch == InitXtal /\ [][NextSwitch]_vars

\* Statement a has executed in the current call, and statement b before it.
After(a, b) == Executed(a) => (Executed(b) /\ Last(b) < First(a))

\* C37: in the crystal clock bring-up (Sys_PowerModes_XTAL_ClockInit) the
\* dependent supply is connected and the oscillator started only after the
\* VDDRF ready flag has been observed; the system clock source is switched
\* to the RF clock only after the crystal digital-ready flag has been
\* observed; and in every system clock switch the flash delay is set to its
\* maximum (48 MHz) setting before the clock source register is written and
\* before the real delay is recomputed.
C37_BringUpOrder ==
    /\ op = "XTAL_ClockInit" =>
          /\ After("VDDPA_CONNECT_VDDRF", "WAIT_VDDRF_READY")
          /\ After("XTAL_START", "WAIT_VDDRF_READY")
          /\ Executed("WAIT_VDDRF_READY") => reg.VDDRF_READY
          /\ After("SYS_CFG_WRITE", "WAIT_CLK_DIG_READY")
          /\ Executed("WAIT_CLK_DIG_READY") => reg.CLK_DIG_READY
          /\ Executed("SYS_CFG_WRITE") => reg.SYS_CLKSRC = "RFCLK"
          /\ (obs.pre.rf_access = {} /\ ~Executed("SYS_CFG_WRITE"))
                => reg.SYS_CLKSRC # "RFCLK"
    /\ op \in {"XTAL_ClockInit", "SystemClkConfig"} =>
          /\ After("SYS_CFG_WRITE", "FLASH_DELAY_MAX")
          /\ After("SYSTEM_CORE_CLOCK_UPDATE", "FLASH_DELAY_MAX")
          /\ After("SYSTEM_CORE_CLOCK_UPDATE", "SYS_CFG_WRITE")
          /\ (At("SYS_CFG_WRITE") \/ At("SYSTEM_CORE_CLOCK_UPDATE"))
                => reg.FLASH_DELAY = "48MHZ"

\* The crystal was off at the call, both flags were raised by the hardware
\* during it, and the switch to the RF clock has been completed.
C37_Witness ==
    /\ op = "XTAL_ClockInit"
    /\ Executed("SYSTEM_CORE_CLOCK_UPDATE")
    /\ obs.pre.rf_access = {}
    /\ reg.SYS_CLKSRC = "RFCLK" /\ reg.VDDRF_READY /\ reg.CLK_DIG_READY
    /\ reg.SystemCoreClock = RFCLK_BASE_FREQ \div reg.XTAL_PRESCALE

(***************************************************************************)
(* The test of the supply in Sys_RFFE_SetTXPower_NoVDDPA (rffe.c:219-257). *)
(***************************************************************************)
\* The path without the amplifier has run with a positive target.
NoPaPositive ==
    /\ obs.res.fn = "Sys_RFFE_SetTXPower"
    /\ ValidArguments
    /\ obs.res.target > RF_NO_VDDPA_TYPICAL_POWER
    /\ obs.res.novddpa.run
\* The VDDRF required for the target, in millivolts.
RequiredVddrf == TARGET_VDDRF_1070 * 10 + obs.res.target * MV_PER_DBM_VDDRF
\* The path has written the raised VDDRF trim.
VddrfRaised ==
    /\ obs.res.novddpa.after.VDDRF_VTRIM
          = (nvr.vddrf1 + obs.res.target * STEPS_PER_DBM_VDDRF) % 256
    /\ obs.res.novddpa.after.VDDRF_VTRIM # obs.res.novddpa.before.VDDRF_VTRIM
VccTestAsStated ==
    /\ obs.res.novddpa.error = ERRNO_RFFE_VCC_INSUFFICIENT
          <=> obs.res.novddpa.vcc - VCC_VDDRF_MARGIN < RequiredVddrf
    /\ VddrfRaised => obs.res.novddpa.vcc - VCC_VDDRF_MARGIN >= RequiredVddrf

\* C38: for a positive target on the No-PA path and every measured VCC value
\* in millivolts (including values below the 50 mV margin), the path reports
\* VccInsufficient exactly when VCC - 50 is less than the required VDDRF of
\* 1070 + 75 * target millivolts, evaluated as mathematical integers; it
\* raises VDDRF only when VCC - 50 is at least that required value.
C38_VccTestExact == NoPaPositive => VccTestAsStated

\* The same for the supplies of at least the margin.
VccTestExactAboveMargin ==
    (NoPaPositive /\ obs.res.novddpa.vcc >= VCC_VDDRF_MARGIN) => VccTestAsStated

\* A supply of 49 mV is accepted and VDDRF is raised.
BelowMarginAccepted ==
    /\ NoPaPositive
    /\ obs.res.novddpa.vcc = 49
    /\ obs.res.target = 2
    /\ obs.res.novddpa.error = 0
    /\ VddrfRaised

(***************************************************************************)
(* The PA_PWR setting and the trim compensation of the two paths           *)
(* (rffe.c:268-311, 366-384).  Powers are in half dBm: 2 * target and      *)
(* 3 * k for k steps of 1.5 dBm.                                           *)
(***************************************************************************)
Abs(x) == IF x < 0 THEN -x ELSE x

\* The path without the amplifier has run with a target of at most 0 dBm.
NoPaAtMostZero ==
    /\ obs.res.fn = "Sys_RFFE_SetTXPower"
    /\ ValidArguments
    /\ obs.res.target <= RF_NO_VDDPA_TYPICAL_POWER
    /\ obs.res.novddpa.run
\* The path with the amplifier has run with a target of 1 to 6 dBm.
PaPositive ==
    /\ obs.res.fn = "Sys_RFFE_SetTXPower"
    /\ ValidArguments
    /\ obs.res.target > RF_NO_VDDPA_TYPICAL_POWER
    /\ obs.res.vddpa.run

NoPaStepAsStated ==
    LET k   == obs.res.novddpa.after.PA_PWR - PA_PWR_BYTE_0DBM
        res == 2 * obs.res.target - 3 * k
        adj == (res * STEPS_PER_DBM_VDDRF) \div 2
    IN  /\ k <= 0
        /\ Abs(res) <= 1
        /\ nvr.vddrf1 + adj \in 0..255
              => obs.res.novddpa.after.VDDRF_VTRIM = nvr.vddrf1 + adj
PaStepAsStated ==
    LET k   == obs.res.vddpa.after.PA_PWR - PA_PWR_BYTE_0DBM
        res == 2 * (obs.res.target - RF_MAX_POWER) - 3 * k
        adj == (res * STEPS_PER_DBM_VDDPA) \div 2
    IN  /\ k <= 0
        /\ Abs(res) <= 2
        /\ nvr.vddpa2 + adj \in 0..255
              => obs.res.vddpa.after.VDDPA_CTRL.vtrim = nvr.vddpa2 + adj

\* C39: for every target from -17 to 0 dBm the No-PA path writes
\* PA_PWR = 0x0C + k where k is the (non-positive) number of 1.5 dBm steps
\* nearest to the target, i.e. |2*target - 3*k| <= 1, and adjusts the VDDRF
\* trim from its nominal value by (target - 1.5*k) * 6 steps; for every
\* target from +1 to +6 dBm the PA path writes PA_PWR = 0x0C + k with 1.5*k
\* within 1 dBm of target - 6 and adjusts the VDDPA trim by the residual
\* times 10 steps; the configured power is thus within 1 dBm of the target.
C39_NearestStep ==
    /\ NoPaAtMostZero => NoPaStepAsStated
    /\ PaPositive => PaStepAsStated

\* The targets whose step is found by the upper_trim branch, which converts
\* a negative float to uint8_t.
UpperTrimBranch == CRem(2 * obs.res.target + 1, 3) = 0

\* The same for the PA path, and for the No-PA path wherever the step is
\* not the result of that conversion or the conversion wraps.
NearestStepOutsideCast ==
    /\ (NoPaAtMostZero /\ (~UpperTrimBranch \/ obs.res.ub = "wrap"))
          => NoPaStepAsStated
    /\ PaPositive => PaStepAsStated

\* A target of -2 dBm with the conversion saturating at zero: PA_PWR is
\* left at the 0 dBm setting.
StepLostInCast ==
    /\ NoPaAtMostZero
    /\ obs.res.target = -2
    /\ obs.res.ub = "zero"
    /\ obs.res.novddpa.after.PA_PWR = PA_PWR_BYTE_0DBM

(***************************************************************************)
(* Sys_Trim_LoadSingleTrim called with any value of target_name, a         *)
(* uint32_t: the names of TrimName_t and values outside the enumeration.   *)
(***************************************************************************)
UnrecognisedNames == { "TRIM_NAME_10", "TRIM_NAME_0xFFFFFFFF" }
\* The names the switch of Sys_Trim_LoadSingleTrim_private has a case for.
HandledNames == TrimNames \ { "TRIM_VDDIF" }

Call_Sys_Trim_LoadSingleTrim_AnyName ==
    /\ op = "idle" /\ obs.res.fn = "none"
    /\ \E target_name \in TrimNames \cup UnrecognisedNames,
          target_value1 \in {115, 99}, target_value2 \in {80, 70} :
          LET r == Sys_Trim_LoadSingleTrim(nvr, target_name, target_value1,
                                           target_value2, reg)
          IN  /\ reg' = r.reg
              /\ obs' = [obs EXCEPT !.res =
                            [fn |-> "Sys_Trim_LoadSingleTrim", target_name |-> target_name,
                             target_value1 |-> target_value1,
                             target_value2 |-> target_value2, ret |-> r.ret,
                             attempts |-> r.attempts, pre |-> reg]]
    /\ UNCHANGED <<cfg, op, retention, todo, log, ram, nvr>>

NextName == Call_Sys_Trim_LoadSingleTrim_AnyName
SpecName == InitSingle /\ [][NextName]_vars

\* The call has written a trim register: the trims of the regions differ
\* from the values the registers hold before the call.
TrimWritten == reg # obs.res.pre

\* C40: Sys_Trim_LoadSingleTrim returns NoError only if a trim register of
\* the named domain was actually written from the supplemental or the
\* primary region; for every value of the trim-name enumeration (TRIM_VDDIF
\* included) and for any unrecognised name, a call that loads nothing
\* returns a non-zero error mask.
C40_NoErrorOnlyIfWritten ==
    LoadedSingle =>
        /\ obs.res.ret = ERROR_NO_ERROR
              => TrimWritten /\ obs.res.target_name \in TrimNames
        /\ ~TrimWritten => obs.res.ret # ERROR_NO_ERROR

\* The same for the names the switch handles.
HandledNoErrorOnlyIfWritten ==
    (LoadedSingle /\ obs.res.target_name \in HandledNames) =>
        /\ obs.res.ret = ERROR_NO_ERROR => TrimWritten
        /\ ~TrimWritten => obs.res.ret # ERROR_NO_ERROR

\* A name outside the enumeration is answered with NoError, nothing loaded
\* and the primary region not tried.
UnrecognisedNameAccepted ==
    /\ LoadedSingle
    /\ obs.res.target_name \in UnrecognisedNames
    /\ obs.res.ret = ERROR_NO_ERROR
    /\ ~TrimWritten
    /\ Len(obs.res.attempts) = 1

====
